---- MODULE Spec2Model ----
(***************************************************************************)
(* Verification model of the PV display helper: the framed packet codec    *)
(* (common.h), the provider side (pv_display_helper.c) and the consumer /  *)
(* display-backend side (pv_display_backend_helper.c).                     *)
(***************************************************************************)
EXTENDS Integers, Sequences, FiniteSets, TLC

(***************************************************************************)
(* Bounds of the model.                                                    *)
(***************************************************************************)
MaxPackets == 2
MaxPayloadLen == 1
MaxChunk == 2
MaxFaults == 1
DirtyRingRecords == 2
MaxRegistrations == 2
MaxLeaked == 2

(***************************************************************************)
(* Protocol constants (pv_driver_interface.h).                             *)
(***************************************************************************)
PV_DRIVER_MAGIC1 == 49374
PV_DRIVER_MAGIC2 == 23294
PV_DRIVER_MAX_PACKET_SIZE == 4096
SizeofHeader == 16
SizeofFooter == 8
PV_DRIVER_MAX_PAYLOAD_SIZE == PV_DRIVER_MAX_PACKET_SIZE - (SizeofHeader + SizeofFooter)

PACKET_TYPE_CONTROL_DRIVER_CAPABILITIES == 1
PACKET_TYPE_CONTROL_HOST_DISPLAY_LIST == 2
PACKET_TYPE_CONTROL_ADVERTISED_DISPLAY_LIST == 3
PACKET_TYPE_CONTROL_ADD_DISPLAY == 4
PACKET_TYPE_CONTROL_REMOVE_DISPLAY == 5
PACKET_TYPE_CONTROL_DISPLAY_NO_LONGER_AVAILABLE == 6
PACKET_TYPE_CONTROL_TEXT_MODE == 7
PACKET_TYPE_CONTROL_END == 8
PACKET_TYPE_EVENT_SET_DISPLAY == 101
PACKET_TYPE_EVENT_UPDATE_CURSOR == 102
PACKET_TYPE_EVENT_MOVE_CURSOR == 103
PACKET_TYPE_EVENT_BLANK_DISPLAY == 104

(***************************************************************************)
(* Fixed-width integer helpers.                                            *)
(***************************************************************************)
\* C's ^ on values of up to 16 bits, a byte at a time
RECURSIVE XorBits(_, _)
XorBits(a, b) ==
    IF a = 0 THEN b
    ELSE IF b = 0 THEN a
    ELSE ((a + b) % 2) + 2 * XorBits(a \div 2, b \div 2)

XorByte == [ a \in 0..255 |-> [ b \in 0..255 |-> XorBits(a, b) ] ]

Xor(a, b) == XorByte[a % 256][b % 256] + 256 * XorByte[(a \div 256) % 256][(b \div 256) % 256]

\* little-endian byte images of the packed struct fields
LE16(v) == << v % 256, (v \div 256) % 256 >>
LE32(v) == << v % 256, (v \div 256) % 256, (v \div 65536) % 256, (v \div 16777216) % 256 >>
U16At(b, i) == b[i] + 256 * b[i + 1]
\* a uint32_t is held as its 32-bit pattern: values of 2^31 and above are the
\* negative numbers of the same pattern, which LE32 maps back to the same bytes
U32At(b, i) ==
    b[i] + 256 * b[i + 1] + 65536 * b[i + 2]
         + 16777216 * (IF b[i + 3] >= 128 THEN b[i + 3] - 256 ELSE b[i + 3])
\* data_available < length + sizeof(struct dh_footer), computed in size_t
ShortOf(available, length) ==
    IF length < 0 THEN TRUE ELSE available - SizeofFooter < length

ToInt16(v) == IF v % 65536 >= 32768 THEN (v % 65536) - 65536 ELSE v % 65536
ToUint16(v) == v % 65536

Take(s, n) == SubSeq(s, 1, n)
Drop(s, n) == SubSeq(s, n + 1, Len(s))

(***************************************************************************)
(* CRC-16-CCITT, nibble-table variant (common.h).                          *)
(***************************************************************************)
crc_tbl ==
    << 0, 4225, 8450, 12675, 16900, 21125, 25350, 29575,
       33800, 38025, 42250, 46475, 50700, 54925, 59150, 63375 >>

CrcNibble(crc, c) == Xor((crc \div 16) % 4096, crc_tbl[XorByte[crc % 16][c % 16] + 1])

CrcByte(crc, c) == CrcNibble(CrcNibble(crc, c), c \div 16)

RECURSIVE CrcFold(_, _, _)
CrcFold(data, i, crc) ==
    IF i > Len(data) THEN crc
    ELSE LET next == CrcByte(crc, data[i])
         IN  IF next >= 0 THEN CrcFold(data, i + 1, next) ELSE 0

\* __pv_helper_checksum: returns int16_t (~crc & 0xffff)
pv_helper_checksum(data) == ToInt16(65535 - CrcFold(data, 1, 65535))

\* __pv_helper_blob_checksum / __pv_helper_packet_checksum: uint16_t results
pv_helper_blob_checksum(data) == ToUint16(pv_helper_checksum(data))

(***************************************************************************)
(* struct dh_header / struct dh_footer as byte images.                     *)
(***************************************************************************)
HeaderBytes(h) ==
    LE16(h.magic1) \o LE16(h.magic2) \o LE32(h.type) \o LE32(h.length) \o LE32(h.dh_reserved_word)

ParseHeader(b) ==
    [ magic1 |-> U16At(b, 1), magic2 |-> U16At(b, 3), type |-> U32At(b, 5),
      length |-> U32At(b, 9), dh_reserved_word |-> U32At(b, 13) ]

\* a checksum that leaves the header out
pv_helper_packet_checksum_payload_only(header, payload) ==
    ToUint16(pv_helper_checksum(payload))

pv_helper_packet_checksum(header, payload) ==
    ToUint16(pv_helper_checksum(HeaderBytes(header) \o payload))

FooterBytes(crc) == LE16(crc) \o LE16(0) \o LE32(0)

\* the packet image __send_packet builds in its (zeroed) transmit buffer
PacketBytes(type, payload) ==
    LET header == [ magic1 |-> PV_DRIVER_MAGIC1, magic2 |-> PV_DRIVER_MAGIC2, type |-> type,
                    length |-> Len(payload), dh_reserved_word |-> 0 ]
        body == HeaderBytes(header) \o payload
    IN  body \o FooterBytes(pv_helper_blob_checksum(body))


(***************************************************************************)
(* The three receivers of framed packets.                                  *)
(***************************************************************************)
Kinds == { "provider", "consumer", "backend" }

\* fault injected by the transport / allocator into one data-event callback
Faults == { "none", "avail", "malloc", "recv" }

NoHeader == [ magic1 |-> 0, magic2 |-> 0, type |-> 0, length |-> 0, dh_reserved_word |-> 0 ]

(***************************************************************************)
(* Execution context of one callback: the receiver fields it touches, the  *)
(* bytes libivc holds for the channel, the hold count of the big lock, the  *)
(* receive buffers outstanding and the calls it has made so far.           *)
(***************************************************************************)
Ctx(hdr, bytes, handler, recursive) ==
    [ hdr |-> hdr, chan |-> bytes, handler |-> handler, recursive |-> recursive,
      lock |-> 0, bufs |-> 0, blocked |-> FALSE, cont |-> FALSE, trace |-> << >> ]

Event(ev, route, s, payload) ==
    [ ev |-> ev, route |-> route, hdr |-> s.hdr, payload |-> payload, locked |-> s.lock > 0 ]

\* pv_helper_lock: a second acquisition by the owner succeeds on a recursive
\* mutex (Win32 CreateMutex) and never returns on the others
pv_helper_lock(s) ==
    IF s.blocked THEN s
    ELSE IF s.lock > 0 /\ ~s.recursive THEN [ s EXCEPT !.blocked = TRUE ]
    ELSE [ s EXCEPT !.lock = @ + 1 ]

pv_helper_unlock(s) == IF s.blocked THEN s ELSE [ s EXCEPT !.lock = @ - 1 ]

\* libivc_recv: exact-length read, fails without consuming when short
ivc_can_recv(s, n) == Len(s.chan) >= n

(***************************************************************************)
(* Provider control channel (pv_display_helper.c).                         *)
(***************************************************************************)
ProviderRoute(type) ==
    CASE type = PACKET_TYPE_CONTROL_HOST_DISPLAY_LIST -> "host_display_change_handler"
      [] type = PACKET_TYPE_CONTROL_ADD_DISPLAY -> "add_display_handler"
      [] type = PACKET_TYPE_CONTROL_REMOVE_DISPLAY -> "remove_display_handler"
      [] OTHER -> "none"

\* a trigger that runs the handler a second time
trigger_fatal_error_on_provider_twice(s) ==
    IF s.blocked THEN s
    ELSE IF s.handler
         THEN [ s EXCEPT !.trace = Append(Append(@, Event("fatal", "fatal_error_handler", s, << >>)),
                                          Event("fatal", "fatal_error_handler", s, << >>)) ]
         ELSE s

trigger_fatal_error_on_provider(s) ==
    IF s.blocked THEN s
    ELSE IF s.handler
         THEN [ s EXCEPT !.trace = Append(@, Event("fatal", "fatal_error_handler", s, << >>)) ]
         ELSE s

\* a header read that throws away the bytes of a header that is not complete
provider_try_to_read_header_lossy(s) ==
    LET l == pv_helper_lock(s)
        r == IF ivc_can_recv(l, SizeofHeader)
             THEN [ l EXCEPT !.hdr = ParseHeader(Take(l.chan, SizeofHeader)),
                             !.chan = Drop(l.chan, SizeofHeader), !.cont = TRUE ]
             ELSE [ l EXCEPT !.chan = << >>, !.cont = FALSE ]
    IN  IF l.blocked THEN l ELSE pv_helper_unlock(r)

provider_try_to_read_header(s) ==
    LET l == pv_helper_lock(s)
        r == IF ivc_can_recv(l, SizeofHeader)
             THEN [ l EXCEPT !.hdr = ParseHeader(Take(l.chan, SizeofHeader)),
                             !.chan = Drop(l.chan, SizeofHeader), !.cont = TRUE ]
             ELSE [ l EXCEPT !.cont = FALSE ]
    IN  IF l.blocked THEN l ELSE pv_helper_unlock(r)

\* a receive that calls the packet handler before it gives up the lock
provider_try_to_receive_control_packet_locked(s, fault) ==
    LET l == pv_helper_lock(s)
        length_with_footer == l.hdr.length + SizeofFooter
        buffer == Take(l.chan, length_with_footer)
        payload == Take(buffer, l.hdr.length)
        footer_crc == U16At(buffer, l.hdr.length + 1)
        checksum == pv_helper_packet_checksum(l.hdr, payload)
        stop == [ l EXCEPT !.cont = FALSE ]
        failed == [ stop EXCEPT !.trace = Append(@, Event("avail_failed", "none", l, << >>)) ]
        refused == [ stop EXCEPT !.trace = Append(@, Event("alloc_failed", "none", l, << >>)) ]
    IN  IF l.blocked THEN l
        ELSE IF fault = "avail"
        THEN trigger_fatal_error_on_provider(pv_helper_unlock(failed))
        ELSE IF ShortOf(Len(l.chan), l.hdr.length)
        THEN pv_helper_unlock(stop)
        ELSE IF fault = "malloc"
        THEN pv_helper_unlock(refused)
        ELSE IF fault = "recv"
        THEN pv_helper_unlock(stop)
        ELSE LET got == [ l EXCEPT !.chan = Drop(l.chan, length_with_footer), !.hdr.length = 0,
                                   !.bufs = @ + 1 ]
             IN  IF checksum # footer_crc
                 THEN trigger_fatal_error_on_provider(
                          pv_helper_unlock([ got EXCEPT !.cont = FALSE, !.bufs = @ - 1,
                              !.trace = Append(@, Event("crc_mismatch", "none", got, payload)) ]))
                 ELSE LET d == [ got EXCEPT !.trace =
                                   Append(@, Event("receipt", ProviderRoute(got.hdr.type), got,
                                                   payload)) ]
                      IN  pv_helper_unlock([ d EXCEPT !.bufs = @ - 1, !.cont = TRUE ])

\* a receive that gives up the header in progress when it gets no buffer
provider_try_to_receive_control_packet_forgetful(s, fault) ==
    LET l == pv_helper_lock(s)
        length_with_footer == l.hdr.length + SizeofFooter
        buffer == Take(l.chan, length_with_footer)
        payload == Take(buffer, l.hdr.length)
        footer_crc == U16At(buffer, l.hdr.length + 1)
        checksum == pv_helper_packet_checksum(l.hdr, payload)
        stop == [ l EXCEPT !.cont = FALSE ]
        failed == [ stop EXCEPT !.trace = Append(@, Event("avail_failed", "none", l, << >>)) ]
        refused == [ stop EXCEPT !.hdr.length = 0,
                                 !.trace = Append(@, Event("alloc_failed", "none", l, << >>)) ]
    IN  IF l.blocked THEN l
        ELSE IF fault = "avail"
        THEN trigger_fatal_error_on_provider(pv_helper_unlock(failed))
        ELSE IF ShortOf(Len(l.chan), l.hdr.length)
        THEN pv_helper_unlock(stop)
        ELSE IF fault = "malloc"
        THEN pv_helper_unlock(refused)
        ELSE IF fault = "recv"
        THEN pv_helper_unlock(stop)
        ELSE LET got == [ l EXCEPT !.chan = Drop(l.chan, length_with_footer), !.hdr.length = 0,
                                   !.bufs = @ + 1 ]
             IN  IF checksum # footer_crc
                 THEN trigger_fatal_error_on_provider(
                          pv_helper_unlock([ got EXCEPT !.cont = FALSE, !.bufs = @ - 1,
                              !.trace = Append(@, Event("crc_mismatch", "none", got, payload)) ]))
                 ELSE LET u == pv_helper_unlock(got)
                          d == [ u EXCEPT !.trace =
                                   Append(@, Event("receipt", ProviderRoute(u.hdr.type), u, payload)) ]
                      IN  [ d EXCEPT !.bufs = @ - 1, !.cont = TRUE ]

provider_try_to_receive_control_packet(s, fault) ==
    LET l == pv_helper_lock(s)
        length_with_footer == l.hdr.length + SizeofFooter
        buffer == Take(l.chan, length_with_footer)
        payload == Take(buffer, l.hdr.length)
        footer_crc == U16At(buffer, l.hdr.length + 1)
        checksum == pv_helper_packet_checksum(l.hdr, payload)
        stop == [ l EXCEPT !.cont = FALSE ]
        failed == [ stop EXCEPT !.trace = Append(@, Event("avail_failed", "none", l, << >>)) ]
        refused == [ stop EXCEPT !.trace = Append(@, Event("alloc_failed", "none", l, << >>)) ]
    IN  IF l.blocked THEN l
        ELSE IF fault = "avail"
        THEN trigger_fatal_error_on_provider(pv_helper_unlock(failed))
        ELSE IF ShortOf(Len(l.chan), l.hdr.length)
        THEN pv_helper_unlock(stop)
        ELSE IF fault = "malloc"
        THEN pv_helper_unlock(refused)
        ELSE IF fault = "recv"
        THEN pv_helper_unlock(stop)
        ELSE LET got == [ l EXCEPT !.chan = Drop(l.chan, length_with_footer), !.hdr.length = 0,
                                   !.bufs = @ + 1 ]
             IN  IF checksum # footer_crc
                 THEN trigger_fatal_error_on_provider(
                          pv_helper_unlock([ got EXCEPT !.cont = FALSE, !.bufs = @ - 1,
                              !.trace = Append(@, Event("crc_mismatch", "none", got, payload)) ]))
                 ELSE LET u == pv_helper_unlock(got)
                          d == [ u EXCEPT !.trace =
                                   Append(@, Event("receipt", ProviderRoute(u.hdr.type), u, payload)) ]
                      IN  [ d EXCEPT !.bufs = @ - 1, !.cont = TRUE ]

RECURSIVE provider_handle_control_channel_event(_, _)
provider_handle_control_channel_event(s, fault) ==
    LET a == IF s.hdr.length = 0 THEN provider_try_to_read_header(s) ELSE s
        b == IF ~a.blocked /\ a.hdr.length # 0
             THEN provider_try_to_receive_control_packet(a, fault) ELSE a
    IN  IF ~b.blocked /\ b.cont THEN provider_handle_control_channel_event(b, fault) ELSE b

provider_handle_control_channel_disconnect(s) == trigger_fatal_error_on_provider(s)

(***************************************************************************)
(* Consumer control channel (pv_display_backend_helper.c).                 *)
(***************************************************************************)
ConsumerRoute(type) ==
    CASE type = PACKET_TYPE_CONTROL_DRIVER_CAPABILITIES -> "driver_capabilities_handler"
      [] type = PACKET_TYPE_CONTROL_ADVERTISED_DISPLAY_LIST -> "advertised_list_handler"
      [] type = PACKET_TYPE_CONTROL_DISPLAY_NO_LONGER_AVAILABLE -> "display_no_longer_available_handler"
      [] type = PACKET_TYPE_CONTROL_TEXT_MODE -> "text_mode_handler"
      [] OTHER -> "none"

trigger_fatal_error_on_consumer(s) ==
    LET l == pv_helper_lock(s)
        c == IF l.handler
             THEN [ l EXCEPT !.trace = Append(@, Event("fatal", "fatal_error_handler", l, << >>)) ]
             ELSE l
    IN  IF l.blocked THEN l ELSE pv_helper_unlock(c)

consumer_try_to_read_header(s) ==
    IF ivc_can_recv(s, SizeofHeader)
    THEN [ s EXCEPT !.hdr = ParseHeader(Take(s.chan, SizeofHeader)),
                    !.chan = Drop(s.chan, SizeofHeader), !.cont = TRUE ]
    ELSE [ s EXCEPT !.cont = FALSE ]

consumer_try_to_receive_control_packet(s, fault) ==
    LET length_with_footer == s.hdr.length + SizeofFooter
        buffer == Take(s.chan, length_with_footer)
        payload == Take(buffer, s.hdr.length)
        footer_crc == U16At(buffer, s.hdr.length + 1)
        checksum == pv_helper_packet_checksum(s.hdr, payload)
        stop == [ s EXCEPT !.cont = FALSE ]
        failed == [ stop EXCEPT !.trace = Append(@, Event("avail_failed", "none", s, << >>)) ]
        refused == [ stop EXCEPT !.trace = Append(@, Event("alloc_failed", "none", s, << >>)) ]
    IN  IF fault = "avail"
        THEN trigger_fatal_error_on_consumer(failed)
        ELSE IF ShortOf(Len(s.chan), s.hdr.length)
        THEN stop
        ELSE IF fault = "malloc"
        THEN refused
        ELSE IF fault = "recv"
        THEN stop
        ELSE LET got == [ s EXCEPT !.chan = Drop(s.chan, length_with_footer), !.hdr.length = 0,
                                   !.bufs = @ + 1 ]
             IN  IF checksum # footer_crc
                 THEN trigger_fatal_error_on_consumer(
                          [ got EXCEPT !.cont = FALSE, !.bufs = @ - 1,
                              !.trace = Append(@, Event("crc_mismatch", "none", got, payload)) ])
                 ELSE [ got EXCEPT !.cont = TRUE, !.bufs = @ - 1, !.trace =
                          Append(@, Event("receipt", ConsumerRoute(got.hdr.type), got, payload)) ]

RECURSIVE consumer_control_loop(_, _)
consumer_control_loop(s, fault) ==
    LET a == IF s.hdr.length = 0 THEN consumer_try_to_read_header(s) ELSE s
        b == IF a.hdr.length # 0
             THEN consumer_try_to_receive_control_packet(a, fault) ELSE a
    IN  IF ~b.blocked /\ b.cont THEN consumer_control_loop(b, fault) ELSE b

consumer_handle_control_channel_event(s, fault) ==
    LET l == pv_helper_lock(s)
    IN  IF l.blocked THEN l ELSE pv_helper_unlock(consumer_control_loop(l, fault))

\* the trailing libivc_disconnect(client) closes the channel (see Disconnect)
consumer_handle_control_channel_disconnect(s) == trigger_fatal_error_on_consumer(s)

\* finish_control_connection: binds the client, registers the two channel
\* callbacks and runs the data callback once for what is already in the ring
finish_control_connection(s, fault) == consumer_handle_control_channel_event(s, fault)

\* __handle_control_connection, the accept callback of the control server:
\* the user's handler runs between the lock and the unlock; finishes is
\* whether that handler calls finish_control_connection before it returns
handle_control_connection(s, new_control_connection, finishes, fault) ==
    LET l == pv_helper_lock(s)
        called == [ l EXCEPT !.trace = Append(@, Event("control_connection",
                                                       "new_control_connection", l, << >>)) ]
        h == IF ~new_control_connection THEN l
             ELSE IF finishes THEN finish_control_connection(called, fault)
             ELSE called
    IN  IF h.blocked THEN h ELSE pv_helper_unlock(h)

(***************************************************************************)
(* Display backend event channel (pv_display_backend_helper.c).            *)
(***************************************************************************)
BackendRoute(type) ==
    CASE type = PACKET_TYPE_EVENT_SET_DISPLAY -> "set_display_handler"
      [] type = PACKET_TYPE_EVENT_BLANK_DISPLAY -> "blank_display_handler"
      [] type = PACKET_TYPE_EVENT_UPDATE_CURSOR -> "update_cursor_handler"
      [] type = PACKET_TYPE_EVENT_MOVE_CURSOR -> "move_cursor_handler"
      [] OTHER -> "none"

\* fatal_lock is a second mutex, never held by the data path; the handler
\* pointer is cleared before the call
trigger_fatal_error_on_display_backend(s) ==
    IF s.handler
    THEN [ s EXCEPT !.handler = FALSE,
                    !.trace = Append(@, Event("fatal", "fatal_error_handler", s, << >>)) ]
    ELSE s

backend_try_to_read_event_header(s, fault) ==
    LET available_data == IF fault = "avail" THEN 0 ELSE Len(s.chan)
    IN  IF available_data >= SizeofHeader
        THEN [ s EXCEPT !.hdr = ParseHeader(Take(s.chan, SizeofHeader)),
                        !.chan = Drop(s.chan, SizeofHeader), !.cont = TRUE ]
        ELSE IF fault = "avail"
        THEN [ s EXCEPT !.cont = FALSE,
                        !.trace = Append(@, Event("avail_failed", "none", s, << >>)) ]
        ELSE [ s EXCEPT !.cont = FALSE ]

backend_try_to_receive_event_packet(s, fault) ==
    LET length_with_footer == s.hdr.length + SizeofFooter
        buffer == Take(s.chan, length_with_footer)
        payload == Take(buffer, s.hdr.length)
        footer_crc == U16At(buffer, s.hdr.length + 1)
        checksum == pv_helper_packet_checksum(s.hdr, payload)
        stop == [ s EXCEPT !.cont = FALSE ]
        failed == [ stop EXCEPT !.trace = Append(@, Event("avail_failed", "none", s, << >>)) ]
        refused == [ stop EXCEPT !.trace = Append(@, Event("alloc_failed", "none", s, << >>)) ]
    IN  IF fault = "avail"
        THEN failed
        ELSE IF ShortOf(Len(s.chan), s.hdr.length)
        THEN stop
        ELSE IF fault = "malloc"
        THEN refused
        ELSE IF fault = "recv"
        THEN stop
        ELSE LET got == [ s EXCEPT !.chan = Drop(s.chan, length_with_footer), !.hdr.length = 0,
                                   !.bufs = @ + 1 ]
             IN  IF checksum # footer_crc
                 THEN [ got EXCEPT !.cont = FALSE, !.bufs = @ - 1,
                          !.trace = Append(@, Event("crc_mismatch", "none", got, payload)) ]
                 ELSE [ got EXCEPT !.cont = TRUE, !.bufs = @ - 1, !.trace =
                          Append(@, Event("receipt", BackendRoute(got.hdr.type), got, payload)) ]

RECURSIVE backend_event_loop(_, _)
backend_event_loop(s, fault) ==
    LET a == IF s.hdr.length = 0 THEN backend_try_to_read_event_header(s, fault) ELSE s
        b == IF a.hdr.length # 0
             THEN backend_try_to_receive_event_packet(a, fault) ELSE a
    IN  IF b.cont THEN backend_event_loop(b, fault) ELSE b

backend_handle_event_channel_event(s, fault, disconnected) ==
    LET l == pv_helper_lock(s)
    IN  IF l.blocked THEN l
        ELSE IF disconnected THEN pv_helper_unlock(l)
        ELSE pv_helper_unlock(backend_event_loop(l, fault))

backend_handle_event_channel_disconnect(s) == trigger_fatal_error_on_display_backend(s)

\* the callbacks libivc_register_event_callbacks binds for each receiver
DataCallback(k, s, fault, disconnected) ==
    CASE k = "provider" -> provider_handle_control_channel_event(s, fault)
      [] k = "consumer" -> consumer_handle_control_channel_event(s, fault)
      [] k = "backend" -> backend_handle_event_channel_event(s, fault, disconnected)

DisconnectCallback(k, s) ==
    CASE k = "provider" -> provider_handle_control_channel_disconnect(s)
      [] k = "consumer" -> consumer_handle_control_channel_disconnect(s)
      [] k = "backend" -> backend_handle_event_channel_disconnect(s)

\* a sender that writes as much of the packet as the channel has room for
send_packet_partial(open, available, type, payload) ==
    LET packet == PacketBytes(type, payload)
    IN  IF ~open THEN [ rc |-> "ENOENT", out |-> << >> ]
        ELSE IF available < Len(packet)
        THEN [ rc |-> "ENOMEM", out |-> SubSeq(packet, 1, available) ]
        ELSE [ rc |-> "OK", out |-> packet ]

(***************************************************************************)
(* __send_packet (common.h): the packet is built, then sent in one         *)
(* libivc_send if the channel is open and has room for all of it.          *)
(***************************************************************************)
send_packet(open, available, type, payload) ==
    LET packet == PacketBytes(type, payload)
    IN  IF ~open THEN [ rc |-> "ENOENT", out |-> << >> ]
        ELSE IF available < Len(packet) THEN [ rc |-> "ENOMEM", out |-> << >> ]
        ELSE [ rc |-> "OK", out |-> packet ]

(***************************************************************************)
(* One framed channel and its receiver.                                    *)
(***************************************************************************)
RingCapacity == 64
\* the payload of n bytes the peer sends
PayloadOf(n) == [ i \in 1..n |-> (165 * i) % 256 ]
Payloads == { PayloadOf(n) : n \in 0..MaxPayloadLen }

\* per receiver: one packet type it handles and one it does not
TypesFor(k) ==
    CASE k = "provider" -> { PACKET_TYPE_CONTROL_ADD_DISPLAY, PACKET_TYPE_CONTROL_END }
      [] k = "consumer" -> { PACKET_TYPE_CONTROL_TEXT_MODE, PACKET_TYPE_CONTROL_END }
      [] k = "backend" -> { PACKET_TYPE_EVENT_MOVE_CURSOR, PACKET_TYPE_CONTROL_END }

(***************************************************************************)
(* Provider-side display (struct pv_display): creation, reconnection,      *)
(* geometry changes, dirty rectangles and channel disconnects.             *)
(***************************************************************************)
SizeofDirtyRectangle == 16

\* geometries a driver sets: width, height in pixels, stride in bytes
Geometries == { [ width |-> 8, height |-> 6, stride |-> 32 ],
                [ width |-> 4, height |-> 3, stride |-> 16 ] }
NoGeometry == [ width |-> 0, height |-> 0, stride |-> 0 ]
DefaultGeometry == [ width |-> 8, height |-> 6, stride |-> 32 ]

\* rectangles a driver invalidates
Regions == { [ x |-> 1, y |-> 2, width |-> 3, height |-> 4 ],
             [ x |-> 5, y |-> 0, width |-> 2, height |-> 1 ] }
NoRegion == [ x |-> 0, y |-> 0, width |-> 0, height |-> 0 ]

\* a dirty rectangle sent as a framed packet
DirtyRectangleBytesFramed(r) ==
    PacketBytes(0, LE32(r.x) \o LE32(r.y) \o LE32(r.width) \o LE32(r.height))

\* struct dh_dirty_rectangle and struct dh_set_display as they are sent
DirtyRectangleBytes(r) == LE32(r.x) \o LE32(r.y) \o LE32(r.width) \o LE32(r.height)
ParseDirtyRectangle(b) ==
    [ x |-> U32At(b, 1), y |-> U32At(b, 5), width |-> U32At(b, 9), height |-> U32At(b, 13) ]
SetDisplayBytes(g) == LE32(g.width) \o LE32(g.height) \o LE32(g.stride)
ParseSetDisplay(b) == [ width |-> U32At(b, 1), height |-> U32At(b, 5), stride |-> U32At(b, 9) ]

\* struct dh_add_display: a port of 0 means the channel is not offered
AddDisplayRequests ==
    [ key : { 7 }, event_port : { 0, 2000 }, framebuffer_port : { 0, 2001 },
      dirty_rectangles_port : { 0, 2002 }, cursor_bitmap_port : { 0, 2003 } ]
FullRequest ==
    [ key |-> 7, event_port |-> 2000, framebuffer_port |-> 2001,
      dirty_rectangles_port |-> 2002, cursor_bitmap_port |-> 2003 ]
NoRequest ==
    [ key |-> 0, event_port |-> 0, framebuffer_port |-> 0, dirty_rectangles_port |-> 0,
      cursor_bitmap_port |-> 0 ]
NoCall == [ op |-> "none", request |-> NoRequest, fault |-> "none" ]

\* what can fail inside provider_create_display and pv_display_reconnect
CreateFaults == { "none", "malloc", "connect_framebuffer", "buffer_framebuffer", "connect_event",
                  "connect_dirty_rectangles", "connect_cursor_image", "buffer_cursor_image" }
ReconnectFaults == { "none", "framebuffer", "event", "dirty_rectangles", "cursor_image" }

\* sizes of the dirty rectangles ring: a whole number of records, or not
DirtyRingSizes == { SizeofDirtyRectangle * DirtyRingRecords,
                    SizeofDirtyRectangle * DirtyRingRecords + 4 }

IvcCall(op, channel) == [ op |-> op, channel |-> channel ]

\* a validation that looks at the event port only
__validate_add_display_request_event_only(request) == request.event_port # 0

__validate_add_display_request(request) ==
    request.framebuffer_port # 0 /\ request.event_port # 0

\* a destroy that tears down the event connection only
pv_display_destroy_event_only(clients) ==
    IF "event" \in clients THEN << IvcCall("disconnect", "event") >> ELSE << >>

\* the libivc_disconnect calls of pv_display_destroy, in its order
pv_display_destroy(clients) ==
    LET ev == IF "event" \in clients THEN << IvcCall("disconnect", "event") >> ELSE << >>
        fb == IF "framebuffer" \in clients
              THEN << IvcCall("disconnect", "framebuffer") >> ELSE << >>
        dr == IF "dirty_rectangles" \in clients
              THEN << IvcCall("disconnect", "dirty_rectangles") >> ELSE << >>
        cu == IF "cursor_image" \in clients
              THEN << IvcCall("disconnect", "cursor_image") >> ELSE << >>
    IN  ev \o fb \o dr \o cu

\* __create_shared_framebuffer: [ ok, clients, calls ]
create_shared_framebuffer(fault) ==
    IF fault = "connect_framebuffer"
    THEN [ ok |-> FALSE, clients |-> { }, calls |-> << IvcCall("connect", "framebuffer") >> ]
    ELSE IF fault = "buffer_framebuffer"
    THEN [ ok |-> FALSE, clients |-> { },
           calls |-> << IvcCall("connect", "framebuffer"), IvcCall("disconnect", "framebuffer") >> ]
    ELSE [ ok |-> TRUE, clients |-> { "framebuffer" },
           calls |-> << IvcCall("connect", "framebuffer") >> ]

\* __create_pv_display_support_connections: [ ok, clients, calls ]
create_pv_display_support_connections(request, fault) ==
    LET event == << IvcCall("connect", "event") >>
        dirty ==
            IF request.dirty_rectangles_port = 0 THEN [ clients |-> { }, calls |-> << >> ]
            ELSE IF fault = "connect_dirty_rectangles"
            THEN [ clients |-> { }, calls |-> << IvcCall("connect", "dirty_rectangles") >> ]
            ELSE [ clients |-> { "dirty_rectangles" },
                   calls |-> << IvcCall("connect", "dirty_rectangles") >> ]
        cursor ==
            IF request.cursor_bitmap_port = 0 THEN [ clients |-> { }, calls |-> << >> ]
            ELSE IF fault = "connect_cursor_image"
            THEN [ clients |-> { }, calls |-> << IvcCall("connect", "cursor_image") >> ]
            ELSE IF fault = "buffer_cursor_image"
            THEN [ clients |-> { },
                   calls |-> << IvcCall("connect", "cursor_image"),
                                IvcCall("disconnect", "cursor_image") >> ]
            ELSE [ clients |-> { "cursor_image" },
                   calls |-> << IvcCall("connect", "cursor_image") >> ]
    IN  IF fault = "connect_event"
        THEN [ ok |-> FALSE, clients |-> { }, calls |-> event ]
        ELSE [ ok |-> TRUE, clients |-> { "event" } \cup dirty.clients \cup cursor.clients,
               calls |-> event \o dirty.calls \o cursor.calls ]

\* provider_create_display as a function of its inputs:
\* [ rc, new_display, allocations, clients, calls ]
create_display(request, fault) ==
    LET fb == create_shared_framebuffer(fault)
        sc == create_pv_display_support_connections(request, fault)
    IN  IF ~__validate_add_display_request(request)
        THEN [ rc |-> "EINVAL", new_display |-> "unset", allocations |-> 0,
               clients |-> { }, calls |-> << >> ]
        ELSE IF fault = "malloc"
        THEN [ rc |-> "ENOMEM", new_display |-> "unset", allocations |-> 0,
               clients |-> { }, calls |-> << >> ]
        ELSE IF ~fb.ok
        THEN [ rc |-> "ENOMEM", new_display |-> "NULL", allocations |-> 1,
               clients |-> { }, calls |-> fb.calls \o pv_display_destroy(fb.clients) ]
        ELSE IF ~sc.ok
        THEN [ rc |-> "EIVC", new_display |-> "NULL", allocations |-> 1,
               clients |-> { },
               calls |-> fb.calls \o sc.calls \o pv_display_destroy(fb.clients \cup sc.clients) ]
        ELSE [ rc |-> "OK", new_display |-> "display", allocations |-> 1,
               clients |-> fb.clients \cup sc.clients, calls |-> fb.calls \o sc.calls ]

\* a reconnect for which a failure on an optional channel is fatal too
display_reconnect_strict(clients, request, fault) ==
    LET fb == IvcCall("reconnect", "framebuffer")
        ev == IvcCall("reconnect", "event")
        dr == IvcCall("reconnect", "dirty_rectangles")
    IN  IF "framebuffer" \notin clients \/ "event" \notin clients
        THEN [ rc |-> "EINVAL", calls |-> << >>, buffers |-> 0, reconnected |-> { } ]
        ELSE IF request.framebuffer_port = 0 \/ request.event_port = 0
        THEN [ rc |-> "EINVAL", calls |-> << >>, buffers |-> 0, reconnected |-> { } ]
        ELSE IF fault = "framebuffer"
        THEN [ rc |-> "ENXIO", calls |-> << fb >>, buffers |-> 0, reconnected |-> { } ]
        ELSE IF fault = "event"
        THEN [ rc |-> "ENXIO", calls |-> << fb, ev >>, buffers |-> 0, reconnected |-> { "framebuffer" } ]
        ELSE IF fault = "dirty_rectangles"
        THEN [ rc |-> "ENXIO", calls |-> << fb, ev, dr >>,
               buffers |-> 0, reconnected |-> { "framebuffer", "event" } ]
        ELSE [ rc |-> "OK", calls |-> << fb, ev >>, buffers |-> 0, reconnected |-> { "framebuffer", "event" } ]

\* a reconnect that does not look at the ports of the request
display_reconnect_unvalidated(clients, request, fault) ==
    LET fb == IvcCall("reconnect", "framebuffer")
        ev == IvcCall("reconnect", "event")
    IN  IF "framebuffer" \notin clients \/ "event" \notin clients
        THEN [ rc |-> "EINVAL", calls |-> << >>, buffers |-> 0, reconnected |-> { } ]
        ELSE IF fault = "framebuffer"
        THEN [ rc |-> "ENXIO", calls |-> << fb >>, buffers |-> 0, reconnected |-> { } ]
        ELSE IF fault = "event"
        THEN [ rc |-> "ENXIO", calls |-> << fb, ev >>, buffers |-> 0, reconnected |-> { "framebuffer" } ]
        ELSE [ rc |-> "OK", calls |-> << fb, ev >>, buffers |-> 0, reconnected |-> { "framebuffer", "event" } ]

\* pv_display_reconnect as a function of its inputs: [ rc, calls, reconnected ]
display_reconnect(clients, request, fault) ==
    LET fb == IvcCall("reconnect", "framebuffer")
        ev == IvcCall("reconnect", "event")
        dr == IF request.dirty_rectangles_port # 0 /\ "dirty_rectangles" \in clients
              THEN << IvcCall("reconnect", "dirty_rectangles") >> ELSE << >>
        cu == IF request.cursor_bitmap_port # 0 /\ "cursor_image" \in clients
              THEN << IvcCall("reconnect", "cursor_image") >> ELSE << >>
        calls == << fb, ev >> \o dr \o cu
    IN  IF "framebuffer" \notin clients \/ "event" \notin clients
        THEN [ rc |-> "EINVAL", calls |-> << >>, buffers |-> 0, reconnected |-> { } ]
        ELSE IF request.framebuffer_port = 0 \/ request.event_port = 0
        THEN [ rc |-> "EINVAL", calls |-> << >>, buffers |-> 0, reconnected |-> { } ]
        ELSE IF fault = "framebuffer"
        THEN [ rc |-> "ENXIO", calls |-> << fb >>, buffers |-> 0, reconnected |-> { } ]
        ELSE IF fault = "event"
        THEN [ rc |-> "ENXIO", calls |-> << fb, ev >>, buffers |-> 0, reconnected |-> { "framebuffer" } ]
        ELSE [ rc |-> "OK", calls |-> calls,
               buffers |-> 0, reconnected |-> { calls[i].channel : i \in 1..Len(calls) } \ { fault } ]

(***************************************************************************)
(* The hardware cursor of a display: struct pv_cursor and the shared 64x64 *)
(* ARGB8888 image buffer.                                                  *)
(***************************************************************************)
PV_DRIVER_CURSOR_WIDTH == 64
PV_DRIVER_CURSOR_HEIGHT == 64
bits_per_pixel == 32
pixels_to_bytes(pixels) == pixels * (bits_per_pixel \div 8)
CURSOR_IMAGE_SIZE == 64 * 64 * (bits_per_pixel \div 8)

\* display->cursor of a zeroed display object, and of one with a cursor buffer
NoCursor == [ image |-> FALSE, hotspot_x |-> 0, hotspot_y |-> 0, visible |-> FALSE ]
NoCursorCall == [ op |-> "none", x |-> 0, y |-> 0, rc |-> "none" ]
NoFramebuffer == [ buffer |-> "NULL", size |-> 0 ]

\* contents of the shared cursor buffer before the driver loads an image: the
\* bytes libivc hands out, all alike
CursorFills == { 238, 0 }
FilledCursorBuffer(fill) == [ i \in 1..CURSOR_IMAGE_SIZE |-> fill ]

\* images a driver loads: width and height (uint8_t) in pixels, and its bytes,
\* none of which is zero
CursorSources ==
    { [ width |-> 32, height |-> 48 ], [ width |-> 64, height |-> 64 ],
      [ width |-> 1, height |-> 2 ], [ width |-> 0, height |-> 0 ],
      [ width |-> 65, height |-> 10 ], [ width |-> 10, height |-> 65 ] }
\* the ARGB8888 bytes of each source image, none of them 0
SourceImage ==
    [ src \in CursorSources |->
        [ i \in 1..(pixels_to_bytes(src.width) * src.height) |-> 1 + ((i + src.width) % 255) ] ]

\* struct dh_update_cursor as __send_cursor_update_unsynchronized fills it
UpdateCursorBytes(c) ==
    LE32(c.hotspot_x) \o LE32(c.hotspot_y) \o LE32(IF c.visible THEN 1 ELSE 0)
ParseUpdateCursor(b) == [ xhot |-> U32At(b, 1), yhot |-> U32At(b, 5), show |-> U32At(b, 9) ]

\* memset(_, 0, n): n zero bytes
ZeroBytes == [ i \in 1..CURSOR_IMAGE_SIZE |-> 0 ]
Zeros(n) == SubSeq(ZeroBytes, 1, n)

\* one pass of the rows loop of copy_image: the bytes row y of the destination
\* holds after it
CopiedRow(destination, source, source_height, source_stride, stride_difference, destination_stride, y) ==
    IF y >= source_height
    THEN Zeros(destination_stride)
    ELSE SubSeq(source, y * source_stride + 1, (y + 1) * source_stride)
         \o Zeros(stride_difference)
         \o SubSeq(destination, y * destination_stride + source_stride + stride_difference + 1,
                   (y + 1) * destination_stride)

\* the rows loop of copy_image, from row y on
RECURSIVE CopyRows(_, _, _, _, _, _, _)
CopyRows(destination, source, source_height, source_stride, stride_difference, destination_stride, y) ==
    IF y >= PV_DRIVER_CURSOR_HEIGHT
    THEN SubSeq(destination, y * destination_stride + 1, Len(destination))
    ELSE CopiedRow(destination, source, source_height, source_stride, stride_difference,
                   destination_stride, y)
         \o CopyRows(destination, source, source_height, source_stride, stride_difference,
                     destination_stride, y + 1)

\* copy_image: what the destination holds after the loop
copy_image(destination, source, source_height, source_stride, stride_difference, destination_stride) ==
    CopyRows(destination, source, source_height, source_stride, stride_difference,
             destination_stride, 0)

\* pv_display_load_cursor_image up to its send: [ rc, image, update ]
load_cursor_image(cursor, destination, source, source_width, source_height) ==
    IF source_width > PV_DRIVER_CURSOR_WIDTH \/ source_height > PV_DRIVER_CURSOR_HEIGHT
    THEN [ rc |-> "EINVAL", image |-> destination, update |-> FALSE ]
    ELSE IF ~cursor.image
    THEN [ rc |-> "EINVAL", image |-> destination, update |-> FALSE ]
    ELSE LET source_stride == pixels_to_bytes(source_width)
             destination_stride == pixels_to_bytes(PV_DRIVER_CURSOR_WIDTH)
         IN  [ rc |-> "OK",
               image |-> copy_image(destination, source, source_height, source_stride,
                                    destination_stride - source_stride, destination_stride),
               update |-> TRUE ]

(***************************************************************************)
(* Handlers, capabilities and dispatch to the registered handlers.         *)
(***************************************************************************)
DH_CAP_RESIZE == 4
DH_CAP_HOTPLUG == 16
PV_DRIVER_INTERFACE_VERSION == 1
\* the number of displays a driver advertises
MaxDisplays == 2

\* capabilities |= bit
BitOr(c, bit) == IF (c \div bit) % 2 = 1 THEN c ELSE c + bit

ProviderHandlers == { "host_display_change_handler", "add_display_handler",
                      "remove_display_handler" }
ConsumerHandlers == { "driver_capabilities_handler", "advertised_list_handler",
                      "display_no_longer_available_handler", "text_mode_handler" }
BackendEventHandlers == { "set_display_handler", "blank_display_handler",
                          "move_cursor_handler", "update_cursor_handler" }

\* the capability a provider registration method adds
CapabilityOf(h) ==
    CASE h = "host_display_change_handler" -> DH_CAP_RESIZE
      [] h = "add_display_handler" -> DH_CAP_HOTPLUG
      [] h = "remove_display_handler" -> DH_CAP_HOTPLUG

\* the __handle_*_request / __handle_*_event functions: the handler a receipt
\* is routed to is called if it is non-NULL
Dispatch(tr, hs) ==
    LET idx == { i \in 1..Len(tr) : tr[i].ev = "receipt" }
        F[i \in 0..Len(tr)] ==
            IF i = 0 THEN << >>
            ELSE IF i \in idx
            THEN Append(F[i - 1], [ type |-> tr[i].hdr.type, handler |-> tr[i].route,
                                    called |-> tr[i].route \in hs, payload |-> tr[i].payload ])
            ELSE F[i - 1]
    IN  F[Len(tr)]

\* struct dh_driver_capabilities as provider_advertise_capabilities fills it:
\* max_displays and version are set, the other fields are zero-initialised
DriverCapabilitiesBytes(max_displays) ==
    LE32(max_displays) \o LE32(PV_DRIVER_INTERFACE_VERSION) \o LE32(0) \o LE32(0)
ParseDriverCapabilities(b) ==
    [ max_displays |-> U32At(b, 1), version |-> U32At(b, 5), flags |-> U32At(b, 9),
      reserved |-> U32At(b, 13) ]

VARIABLES
    kind,                   \* which receiver owns the channel
    wire,                   \* bytes written by the peer, not yet visible to the receiver
    chan,                   \* bytes libivc reports as available to the receiver
    connected,              \* the channel is open
    current_packet_header,  \* the receiver's in-progress header
    fatal_error_handler,    \* a fatal-error handler is registered (non-NULL)
    disconnected,           \* pv_display_backend.disconnected
    lock,                   \* hold count of the receiver's big lock
    blocked,                \* the callback thread is stuck acquiring the lock
    trace,                  \* calls made by the last callback
    log,                    \* packets passed to the receipt function, in order
    fatal_calls,            \* invocations of the fatal-error handler
    crc_mismatches,         \* packets the receiver found to fail their CRC
    send_rc,                \* result of the last __send_packet
    sent,                   \* packets accepted by __send_packet, in order
    stream,                 \* bytes made available to the receiver so far
    flip,                   \* 0, or 1 + index of the bit flipped in transit
    forged,                 \* "" or the kind of hand-built packet the peer wrote
    faults                  \* faults injected so far

chanVars == << kind, wire, chan, connected, current_packet_header,
               fatal_error_handler, disconnected, lock, blocked, trace, log, fatal_calls,
               crc_mismatches, send_rc, sent, stream, flip, forged, faults >>

(***************************************************************************)
(* A provider-side display (struct pv_display) and its four channels.      *)
(***************************************************************************)
DisplayChannels == { "framebuffer", "event", "dirty_rectangles", "cursor_image" }

VARIABLES
    display_fatal_error_handler,  \* pv_display.fatal_error_handler is non-NULL
    handler_in_progress,          \* the static flag of __handle_disconnect_for_connection
    display_connections,          \* channels of the display that are connected
    handlers_running,             \* calls of the display's handler that have not returned
    display_fatal_calls,          \* invocations of the display's fatal-error handler
    dirty_rectangles,             \* bytes in the dirty rectangles ring, oldest first
    invalidate_rc,                \* result of the last pv_display_invalidate_region
    space_faults,                 \* failed libivc_getAvailableSpace queries so far
    display,                      \* pv_display.width, .height and .stride
    new_display,                  \* the caller's display pointer (*new_display)
    allocated,                    \* pv_display objects allocated and not freed
    display_clients,              \* channels whose connection pointer is non-NULL
    dirty_ring_size,              \* bytes the dirty rectangles ring can hold
    ivc_calls,                    \* libivc calls made by the last create/reconnect/destroy
    create_rc,                    \* result of the last provider_create_display
    create_mallocs,               \* pv_display objects the last create allocated
    reconnect_rc,                 \* result of the last pv_display_reconnect
    last_call,                    \* the last create, destroy or reconnect and its inputs
    change_rc,                    \* result of the last pv_display_change_resolution
    last_invalidate,              \* what the last pv_display_invalidate_region saw and did
    key,                          \* display->key
    framebuffer,                  \* display->framebuffer and display->framebuffer_size
    cursor,                       \* display->cursor: image != NULL, hot spot, visibility
    cursor_image,                 \* the bytes of the shared cursor image buffer, once looked at
    local_buffers,                \* buffers the last call obtained with libivc_getLocalBuffer
    cursor_call,                  \* the last cursor operation: [ op, x, y, rc ]
    control_sent,                 \* bytes the last provider_destroy_display put on the control channel
    destroy_rc                    \* result of the last provider_destroy_display

dispVars == << display_fatal_error_handler, handler_in_progress, display_connections,
               handlers_running, display_fatal_calls, dirty_rectangles, invalidate_rc,
               space_faults, display, new_display, allocated, display_clients,
               dirty_ring_size, ivc_calls, create_rc, create_mallocs, reconnect_rc, change_rc,
               last_invalidate, last_call, key, framebuffer, cursor, cursor_image,
               local_buffers, cursor_call, control_sent, destroy_rc >>

\* parts of dispVars that most actions leave alone
displayObject == << display, new_display, allocated, display_clients, dirty_ring_size, key,
                    framebuffer, cursor, cursor_image, local_buffers, cursor_call >>
displayResults == << ivc_calls, create_rc, create_mallocs, reconnect_rc, change_rc, last_call,
                     control_sent, destroy_rc >>
displayFatal == << display_fatal_error_handler, handler_in_progress, handlers_running,
                   display_fatal_calls >>
displayDirty == << dirty_rectangles, invalidate_rc, space_faults, last_invalidate >>

(***************************************************************************)
(* Handler registrations of the three receivers, and what their dispatch   *)
(* functions did with each packet or record handed to them.                *)
(***************************************************************************)
VARIABLES
    handlers,         \* names of the event handlers that are non-NULL
    capabilities,     \* pv_display_provider.capabilities
    dispatched,       \* per packet receipt, in order: the handler chosen and whether it ran
    dirty_calls,      \* rectangles the last dirty rectangle event gave to the handler
    null_called,      \* a NULL function pointer has been called
    event_callbacks,  \* finish_event_connection has registered the event callbacks
    pending_event,    \* a data notification libivc holds for the event channel
    control_connection  \* the consumer's control connection and its last accept callback

regVars == << handlers, capabilities, dispatched, dirty_calls, null_called, event_callbacks,
              pending_event, control_connection >>

(***************************************************************************)
(* A consumer-side display backend (struct pv_display_backend): the fatal  *)
(* trigger as run by the disconnect callbacks of its four channels.        *)
(***************************************************************************)
VARIABLES
    backend_fatal_error_handler,  \* pv_display_backend.fatal_error_handler is non-NULL
    fatal_lock,                   \* the channel whose callback holds fatal_lock, or "none"
    pc,                           \* where each channel's disconnect callback is
    backend_fatal_calls,          \* invocations of the backend's fatal-error handler
    registrations                 \* register_fatal_error_handler calls so far

beVars == << backend_fatal_error_handler, fatal_lock, pc, backend_fatal_calls, registrations >>

NoInvalidate ==
    [ region |-> NoRegion, available_space |-> 0, sent |-> << >>, fatal |-> FALSE, lock |-> 0,
      fatal_locked |-> FALSE ]

DisplayInit ==
    /\ display_fatal_error_handler = FALSE
    /\ handler_in_progress = FALSE
    /\ display_connections = { }
    /\ handlers_running = 0
    /\ display_fatal_calls = 0
    /\ dirty_rectangles = << >>
    /\ invalidate_rc = "none"
    /\ space_faults = 0
    /\ display = NoGeometry
    /\ new_display = "unset"
    /\ allocated = 0
    /\ display_clients = { }
    /\ dirty_ring_size = 0
    /\ ivc_calls = << >>
    /\ create_rc = "none"
    /\ create_mallocs = 0
    /\ reconnect_rc = "none"
    /\ last_call = NoCall
    /\ key = 0
    /\ framebuffer = NoFramebuffer
    /\ cursor = NoCursor
    /\ cursor_image = << >>
    /\ local_buffers = 0
    /\ cursor_call = NoCursorCall
    /\ control_sent = << >>
    /\ destroy_rc = "none"
    /\ change_rc = "none"
    /\ last_invalidate = NoInvalidate

\* the control connection before libivc has accepted it, and once the user
\* has passed the client to finish_control_connection after the accept
\* callback returned; finished is "none", "handler" (called from within the
\* control_connection handler) or "later"
NoControlConnection ==
    [ new_control_connection |-> FALSE, control_channel |-> FALSE, callbacks |-> FALSE,
      accepted |-> FALSE, handler_called |-> FALSE, finished |-> "none", returned |-> FALSE ]
BoundControlConnection ==
    [ new_control_connection |-> TRUE, control_channel |-> TRUE, callbacks |-> TRUE,
      accepted |-> TRUE, handler_called |-> TRUE, finished |-> "later", returned |-> TRUE ]

\* pv_helper_malloc zeroes the objects: every handler starts NULL
RegistrationsInit ==
    /\ handlers = { }
    /\ capabilities = 0
    /\ dispatched = << >>
    /\ dirty_calls = << >>
    /\ null_called = FALSE
    /\ event_callbacks = FALSE
    /\ pending_event = FALSE

RegInit ==
    /\ control_connection = BoundControlConnection
    /\ RegistrationsInit

(***************************************************************************)
(* Several objects at once: the displays of one provider, whose disconnect *)
(* callbacks share the static flag of __handle_disconnect_for_connection    *)
(* and run on the threads libivc delivers events on.                        *)
(***************************************************************************)
Displays == { "A", "B" }
Threads == { "t1", "t2" }

VARIABLES
    fleet,            \* per display: connected channels, handler registered, handler calls, drops
    callback_stack,   \* per thread: the disconnect callbacks in progress, innermost last
    rx,               \* per thread: where it is in the provider's control receive path
    dirty_event,      \* a backend's dirty rectangles channel, its event callback and its teardown
    rebound,          \* the receiver has bound a new client after losing its connection
    servers,          \* libivc's listening servers, by (domain, port)
    backends,         \* per backend: its server pointers and *_server_listening flags
    start_call,       \* the last start_servers call: its result and what it found and did
    control_call,     \* the last outbound consumer control operation and its result
    outstanding       \* buffers from pv_helper_malloc not yet given to pv_helper_free

objRest == << fleet, callback_stack, rx, dirty_event, rebound, servers, backends, start_call,
              control_call >>
objVars == << objRest, outstanding >>

sessVars == << rebound, servers, backends, start_call, control_call, outstanding >>

\* the channels of a backend in the order start_servers opens their servers
ServerOrder == << "framebuffer", "event", "dirty_rectangles", "cursor_image" >>

\* The ports a backend was created with.  Backend A has a port of its own for
\* each channel; backend B was given A's port for the channels in shared and
\* a port of its own for the others.  All backends serve the same domain.
Port(d, c, shared) == IF d = "A" \/ c \in shared THEN << "A", c >> ELSE << d, c >>
Ports == { << d, c >> : d \in Displays, c \in DisplayChannels }

\* libivc's servers before any start_servers: none listening, and none shut
\* down by destroy_display while it was not listening
NoServers == [ listening |-> { }, twice |-> { } ]

\* consumer_create_pv_display_backend: pv_helper_malloc zeroes the object, so
\* the server pointers are NULL (<< >>) and the *_server_listening flags false
NoBackend ==
    [ created |-> FALSE, destroyed |-> FALSE,
      server |-> [ c \in DisplayChannels |-> << >> ],
      listening |-> [ c \in DisplayChannels |-> FALSE ] ]
NoBackends == [ shared |-> { }, of |-> [ d \in Displays |-> NoBackend ] ]

NoStartCall ==
    [ display |-> "none", rc |-> "none", before |-> { }, null_shutdown |-> FALSE,
      stale_shutdown |-> FALSE ]

NoControlCall == [ op |-> "none", rc |-> "none", handed |-> FALSE ]

\* a backend before its dirty rectangles connection: pointers NULL, nothing
\* written, delivered or in progress
NoDirtyEvent ==
    [ dirty_rectangles_connection |-> FALSE, open |-> FALSE, dirty_rectangle_handler |-> FALSE,
      ring |-> << >>, written |-> << >>, delivered |-> << >>, null_called |-> FALSE,
      pc |-> "idle", available_data |-> 0, rect |-> << >>, teardown |-> "none", faults |-> 0 ]

\* a thread that is not in the receive path: no call, no buffer
NoReceive == [ pc |-> "idle", call |-> "none", buffer |-> << >> ]

NoFleet ==
    [ d \in Displays |-> [ connections |-> { }, handler |-> FALSE, calls |-> 0,
                           dropped |-> { } ] ]

ObjectsInit ==
    /\ fleet = NoFleet
    /\ callback_stack = [ t \in Threads |-> << >> ]
    /\ rx = [ t \in Threads |-> NoReceive ]
    /\ dirty_event = NoDirtyEvent
    /\ rebound = FALSE
    /\ servers = NoServers
    /\ backends = NoBackends
    /\ start_call = NoStartCall
    /\ control_call = NoControlCall
    /\ outstanding = 0

BackendInit ==
    /\ backend_fatal_error_handler = FALSE
    /\ fatal_lock = "none"
    /\ pc = [ c \in DisplayChannels |-> "connected" ]
    /\ backend_fatal_calls = 0
    /\ registrations = 0

ChanInit ==
    /\ kind \in Kinds
    /\ wire = << >>
    /\ chan = << >>
    /\ connected = TRUE
    /\ current_packet_header = NoHeader
    /\ fatal_error_handler = FALSE
    /\ disconnected = FALSE
    /\ lock = 0
    /\ blocked = FALSE
    /\ trace = << >>
    /\ log = << >>
    /\ fatal_calls = 0
    /\ crc_mismatches = 0
    /\ send_rc = "OK"
    /\ sent = << >>
    /\ stream = << >>
    /\ flip = 0
    /\ forged = ""
    /\ faults = 0

Count(tr, ev) == Cardinality({ i \in 1..Len(tr) : tr[i].ev = ev })

Receipts(tr) ==
    LET idx == { i \in 1..Len(tr) : tr[i].ev = "receipt" }
        F[i \in 0..Len(tr)] ==
            IF i = 0 THEN << >>
            ELSE IF i \in idx THEN Append(F[i - 1], << tr[i].hdr.type, tr[i].payload >>)
            ELSE F[i - 1]
    IN  F[Len(tr)]

\* register_fatal_error_handler, during set-up
RegisterFatalErrorHandler ==
    /\ UNCHANGED << dispVars, beVars, objVars, regVars >>
    /\ ~fatal_error_handler
    /\ stream = << >>
    /\ wire = << >>
    /\ ~blocked
    /\ fatal_error_handler' = TRUE
    /\ UNCHANGED << kind, wire, chan, connected, current_packet_header,
                    disconnected, lock, blocked, trace, log, fatal_calls, crc_mismatches, send_rc,
                    sent,
                    stream, flip, forged, faults >>

\* the peer calls __send_packet(channel, type, payload, length)
SendPacket(type, payload) ==
    /\ UNCHANGED << dispVars, beVars, objVars, regVars >>
    /\ Len(sent) < MaxPackets
    /\ flip = 0
    /\ forged = ""
    /\ \E r \in { send_packet(connected, RingCapacity - (Len(wire) + Len(chan)), type, payload) } :
           /\ send_rc' = r.rc
           /\ wire' = wire \o r.out
           /\ sent' = IF r.rc = "OK" THEN Append(sent, << type, payload >>) ELSE sent
    /\ UNCHANGED << kind, chan, connected, current_packet_header,
                    fatal_error_handler, disconnected, lock, blocked, trace, log, fatal_calls,
                    crc_mismatches, stream, flip, forged, faults >>

\* one bit of the only packet in flight is inverted by the transport
FlipBit(i, b) ==
    /\ UNCHANGED << dispVars, beVars, objVars, regVars >>
    /\ flip = 0
    /\ forged = ""
    /\ Len(sent) = 1
    /\ stream = << >>
    /\ faults = 0
    /\ connected
    /\ i \in 1..Len(wire)
    /\ wire' = [ wire EXCEPT ![i] = Xor(@, 2 ^ b) ]
    /\ flip' = 8 * (i - 1) + b + 1
    /\ UNCHANGED << kind, chan, connected, current_packet_header,
                    fatal_error_handler, disconnected, lock, blocked, trace, log, fatal_calls,
                    crc_mismatches, send_rc, sent, stream, forged, faults >>

\* packets a peer can write without __send_packet: wrong magics with a CRC
\* that matches, or a header announcing more than the maximum payload
ForgedBytes(how, type, payload) ==
    LET header == [ magic1 |-> IF how = "magic1" THEN 0 ELSE PV_DRIVER_MAGIC1,
                    magic2 |-> IF how = "magic2" THEN 0 ELSE PV_DRIVER_MAGIC2,
                    type |-> type,
                    length |-> IF how = "length" THEN PV_DRIVER_MAX_PAYLOAD_SIZE + 1
                               ELSE Len(payload),
                    dh_reserved_word |-> 0 ]
        body == HeaderBytes(header) \o payload
    IN  body \o FooterBytes(pv_helper_blob_checksum(body))

SendForged(how, type, payload) ==
    /\ UNCHANGED << dispVars, beVars, objVars, regVars >>
    /\ forged = ""
    /\ flip = 0
    /\ sent = << >>
    /\ stream = << >>
    /\ faults = 0
    /\ connected
    /\ Len(payload) = 1
    /\ wire' = ForgedBytes(how, type, payload)
    /\ forged' = how
    /\ UNCHANGED << kind, chan, connected, current_packet_header,
                    fatal_error_handler, disconnected, lock, blocked, trace, log, fatal_calls,
                    crc_mismatches, send_rc, sent, stream, flip, faults >>

\* libivc makes n more bytes available and runs the data callback; recursive
\* is what the build's pv_helper_mutex does on a second lock by its owner
DataEvent(n, fault, recursive) ==
    /\ UNCHANGED control_connection
    /\ kind = "consumer" => control_connection.callbacks
    /\ UNCHANGED << dispVars, beVars, objRest >>
    /\ UNCHANGED << handlers, capabilities, dirty_calls, null_called, event_callbacks,
                    pending_event >>
    /\ connected
    /\ ~blocked
    /\ n <= Len(wire)
    /\ fault # "none" => faults < MaxFaults
    /\ (flip # 0 \/ forged # "") => (n = Len(wire) /\ fault = "none")
    /\ \E r \in { DataCallback(kind,
                       Ctx(current_packet_header, chan \o Take(wire, n), fatal_error_handler,
                           recursive),
                       fault, disconnected) } :
           /\ current_packet_header' = r.hdr
           /\ chan' = r.chan
           /\ fatal_error_handler' = r.handler
           /\ lock' = r.lock
           /\ blocked' = r.blocked
           /\ trace' = r.trace
           /\ log' = log \o Receipts(r.trace)
           /\ dispatched' = dispatched \o Dispatch(r.trace, handlers)
           /\ fatal_calls' = fatal_calls + Count(r.trace, "fatal")
           /\ outstanding' = outstanding + r.bufs
           /\ crc_mismatches' = crc_mismatches + Count(r.trace, "crc_mismatch")
    /\ wire' = Drop(wire, n)
    /\ stream' = stream \o Take(wire, n)
    /\ faults' = IF fault = "none" THEN faults ELSE faults + 1
    /\ UNCHANGED << kind, connected, disconnected, send_rc, sent, flip, forged >>

\* the peer goes away: libivc runs the disconnect callback, once
Disconnect(recursive) ==
    /\ UNCHANGED << dispVars, beVars, objVars, regVars >>
    /\ kind = "consumer" => control_connection.callbacks
    /\ connected
    /\ ~blocked
    /\ connected' = FALSE
    /\ \E r \in { DisconnectCallback(kind,
                       Ctx(current_packet_header, chan, fatal_error_handler, recursive)) } :
           /\ fatal_error_handler' = r.handler
           /\ lock' = r.lock
           /\ blocked' = r.blocked
           /\ trace' = r.trace
           /\ fatal_calls' = fatal_calls + Count(r.trace, "fatal")
    /\ UNCHANGED << kind, wire, chan, current_packet_header, disconnected,
                    log, crc_mismatches, send_rc, sent, stream, flip, forged, faults >>

\* consumer->register_control_connection_handler(consumer, handler), during set-up
consumer_register_control_connection_handler ==
    /\ kind = "consumer"
    /\ ~control_connection.accepted
    /\ ~control_connection.new_control_connection
    /\ control_connection' = [ control_connection EXCEPT !.new_control_connection = TRUE ]
    /\ UNCHANGED << handlers, capabilities, dispatched, dirty_calls, null_called, event_callbacks,
                    pending_event >>
    /\ UNCHANGED << chanVars, dispVars, beVars, objVars >>

\* The control server accepts the provider's connection and libivc runs
\* __handle_control_connection.  Everything the provider has written by then
\* is in the ring when finish_control_connection looks at it.
ControlConnection(finishes, fault, recursive) ==
    /\ UNCHANGED << dispVars, beVars, objRest >>
    /\ UNCHANGED << capabilities, dirty_calls, null_called, event_callbacks, pending_event >>
    /\ kind = "consumer"
    /\ connected
    /\ ~blocked
    /\ ~control_connection.accepted
    /\ fault # "none" => faults < MaxFaults
    /\ LET bound == control_connection.new_control_connection /\ finishes
           pending == IF bound THEN wire ELSE << >>
       IN  \E r \in { handle_control_connection(
                          Ctx(current_packet_header, chan \o pending, fatal_error_handler,
                              recursive),
                          control_connection.new_control_connection, finishes, fault) } :
               /\ current_packet_header' = r.hdr
               /\ chan' = r.chan
               /\ fatal_error_handler' = r.handler
               /\ lock' = r.lock
               /\ blocked' = r.blocked
               /\ trace' = r.trace
               /\ log' = log \o Receipts(r.trace)
               /\ dispatched' = dispatched \o Dispatch(r.trace, handlers)
               /\ fatal_calls' = fatal_calls + Count(r.trace, "fatal")
               /\ outstanding' = outstanding + r.bufs
               /\ crc_mismatches' = crc_mismatches + Count(r.trace, "crc_mismatch")
               /\ wire' = Drop(wire, Len(pending))
               /\ stream' = stream \o pending
               /\ faults' = IF fault = "none" \/ ~bound THEN faults ELSE faults + 1
               /\ control_connection' =
                      [ control_connection EXCEPT
                          !.accepted = TRUE,
                          !.handler_called = control_connection.new_control_connection,
                          !.control_channel = bound,
                          !.callbacks = bound,
                          !.finished = IF bound THEN "handler" ELSE "none",
                          !.returned = ~r.blocked ]
    /\ UNCHANGED << handlers >>
    /\ UNCHANGED << kind, connected, disconnected, send_rc, sent, flip, forged >>

\* consumer->finish_control_connection(consumer, client), called by the user
\* once the accept callback has returned
FinishControlConnection(fault, recursive) ==
    /\ UNCHANGED << dispVars, beVars, objRest >>
    /\ UNCHANGED << capabilities, dirty_calls, null_called, event_callbacks, pending_event >>
    /\ kind = "consumer"
    /\ connected
    /\ ~blocked
    /\ control_connection.handler_called
    /\ control_connection.returned
    /\ control_connection.finished = "none"
    /\ fault # "none" => faults < MaxFaults
    /\ \E r \in { finish_control_connection(
                       Ctx(current_packet_header, chan \o wire, fatal_error_handler, recursive),
                       fault) } :
           /\ current_packet_header' = r.hdr
           /\ chan' = r.chan
           /\ fatal_error_handler' = r.handler
           /\ lock' = r.lock
           /\ blocked' = r.blocked
           /\ trace' = r.trace
           /\ log' = log \o Receipts(r.trace)
           /\ dispatched' = dispatched \o Dispatch(r.trace, handlers)
           /\ fatal_calls' = fatal_calls + Count(r.trace, "fatal")
           /\ outstanding' = outstanding + r.bufs
           /\ crc_mismatches' = crc_mismatches + Count(r.trace, "crc_mismatch")
    /\ wire' = << >>
    /\ stream' = stream \o wire
    /\ faults' = IF fault = "none" THEN faults ELSE faults + 1
    /\ control_connection' = [ control_connection EXCEPT !.control_channel = TRUE,
                                  !.callbacks = TRUE, !.finished = "later" ]
    /\ UNCHANGED << handlers >>
    /\ UNCHANGED << kind, connected, disconnected, send_rc, sent, flip, forged >>

\* The receiver binds a new client after its connection was lost.  The
\* consumer's user calls finish_control_connection from its connection handler
\* (it binds the client, registers the callbacks and runs the data callback
\* on the new, empty ring); a backend's user calls finish_event_connection
\* (it binds the client, registers the callbacks and enables events).
\* Neither touches current_packet_header.  The new client has a ring of its
\* own, and the records of what was sent and received restart with it.
Rebind(recursive) ==
    /\ UNCHANGED << dispVars, beVars >>
    /\ UNCHANGED << fleet, callback_stack, rx, dirty_event, servers, backends, start_call,
                    control_call >>
    /\ UNCHANGED << handlers, capabilities, dirty_calls, null_called, event_callbacks,
                    pending_event, control_connection >>
    /\ kind \in { "consumer", "backend" }
    /\ ~connected
    /\ ~blocked
    /\ ~disconnected
    /\ ~rebound
    /\ rebound' = TRUE
    /\ connected' = TRUE
    /\ \E r \in { IF kind = "consumer"
                   THEN finish_control_connection(
                            Ctx(current_packet_header, << >>, fatal_error_handler, recursive),
                            "none")
                   ELSE Ctx(current_packet_header, << >>, fatal_error_handler, recursive) } :
           /\ current_packet_header' = r.hdr
           /\ chan' = r.chan
           /\ fatal_error_handler' = r.handler
           /\ lock' = r.lock
           /\ blocked' = r.blocked
           /\ trace' = r.trace
           /\ log' = Receipts(r.trace)
           /\ dispatched' = dispatched \o Dispatch(r.trace, handlers)
           /\ fatal_calls' = fatal_calls + Count(r.trace, "fatal")
           /\ crc_mismatches' = Count(r.trace, "crc_mismatch")
           /\ outstanding' = outstanding + r.bufs
    /\ wire' = << >>
    /\ sent' = << >>
    /\ stream' = << >>
    /\ UNCHANGED << kind, disconnected, send_rc, flip, forged, faults >>

(***************************************************************************)
(* The listening servers of the consumer's backends.  libivc keeps the     *)
(* servers by (domain, port); a backend holds a pointer per channel, which *)
(* is NULL (<< >>) or names a server, and a *_server_listening flag.       *)
(***************************************************************************)
libivc_find_listening_server(listening, port) == IF port \in listening THEN port ELSE << >>

\* libivc_shutdownIvcServer(server) on the running state s of a call: the
\* server stops listening; a NULL pointer and a server that is not listening
\* (never started, or shut down already) are recorded
libivc_shutdownIvcServer(s, server) ==
    IF server = << >> THEN [ s EXCEPT !.null_shutdown = TRUE ]
    ELSE IF server \notin s.listening THEN [ s EXCEPT !.stale = @ \cup { server } ]
    ELSE [ s EXCEPT !.listening = @ \ { server } ]

\* the servers start_servers shuts down at each of its failure labels
TeardownAt(failed) ==
    CASE failed = "cursor_image" -> << "dirty_rectangles", "framebuffer", "event" >>
      [] failed = "dirty_rectangles" -> << "framebuffer", "event" >>
      [] failed = "framebuffer" -> << "event" >>
      [] failed = "event" -> << >>

RECURSIVE ShutdownAll(_, _)
ShutdownAll(s, channels) ==
    IF channels = << >> THEN s
    ELSE ShutdownAll(libivc_shutdownIvcServer(s, s.b.server[Head(channels)]), Tail(channels))

\* the find-or-start steps of start_servers from the i-th server on; fail_at
\* is the channel whose libivc_start_listening_server fails, if it is called
RECURSIVE StartFrom(_, _, _, _)
StartFrom(s, ports, fail_at, i) ==
    IF i > Len(ServerOrder) THEN [ s EXCEPT !.failed = "none" ]
    ELSE LET c == ServerOrder[i]
             found == libivc_find_listening_server(s.listening, ports[c])
         IN  IF found # << >>
             THEN StartFrom([ s EXCEPT !.b.server[c] = found ], ports, fail_at, i + 1)
             ELSE IF fail_at = c
             THEN [ s EXCEPT !.b.server[c] = << >>, !.failed = c ]
             ELSE StartFrom([ s EXCEPT !.b.server[c] = ports[c],
                                       !.listening = @ \cup { ports[c] } ],
                            ports, fail_at, i + 1)

pv_display_backend_start_servers(listening, b, ports, fail_at) ==
    LET s == StartFrom([ listening |-> listening, b |-> b, null_shutdown |-> FALSE,
                         stale |-> { }, failed |-> "none" ], ports, fail_at, 1)
    IN  IF s.failed = "none"
        THEN [ s EXCEPT !.b.listening = [ c \in DisplayChannels |-> TRUE ] ] @@ [ rc |-> "OK" ]
        ELSE [ ShutdownAll(s, TeardownAt(s.failed))
                 EXCEPT !.b.listening = [ c \in DisplayChannels |-> FALSE ] ]
             @@ [ rc |-> "EINVAL" ]

\* the order in which consumer_destroy_display looks at the four flags
DestroyOrder == << "event", "dirty_rectangles", "cursor_image", "framebuffer" >>

RECURSIVE DestroyFrom(_, _)
DestroyFrom(s, i) ==
    IF i > Len(DestroyOrder) THEN s
    ELSE LET c == DestroyOrder[i]
         IN  IF s.b.listening[c]
             THEN DestroyFrom([ libivc_shutdownIvcServer(s, s.b.server[c])
                                  EXCEPT !.b.server[c] = << >>, !.b.listening[c] = FALSE ],
                              i + 1)
             ELSE DestroyFrom(s, i + 1)

consumer_destroy_display(listening, b) ==
    DestroyFrom([ listening |-> listening, b |-> b, null_shutdown |-> FALSE, stale |-> { } ], 1)

ServerFrame ==
    /\ UNCHANGED << chanVars, dispVars, beVars, regVars >>
    /\ UNCHANGED << fleet, callback_stack, rx, dirty_event, rebound, control_call, outstanding >>

\* consumer->create_pv_display_backend(consumer, &d, domid, ports..., opaque);
\* shared is the set of channels for which B is given the ports of A
CreateBackend(d, shared) ==
    /\ ~backends.of[d].created
    /\ d = "A" => shared = backends.shared
    /\ backends' = [ backends EXCEPT !.shared = shared,
                                     !.of[d] = [ NoBackend EXCEPT !.created = TRUE ] ]
    /\ UNCHANGED << servers, start_call >>
    /\ ServerFrame

\* display->start_servers(display)
StartServers(d, fail_at) ==
    /\ backends.of[d].created
    /\ ~backends.of[d].destroyed
    /\ \E r \in { pv_display_backend_start_servers(
                       servers.listening, backends.of[d],
                       [ c \in DisplayChannels |-> Port(d, c, backends.shared) ], fail_at) } :
           /\ servers' = [ servers EXCEPT !.listening = r.listening ]
           /\ backends' = [ backends EXCEPT !.of[d] = r.b ]
           /\ start_call' = [ display |-> d, rc |-> r.rc, before |-> servers.listening,
                              null_shutdown |-> r.null_shutdown,
                              stale_shutdown |-> r.stale # { } ]
    /\ ServerFrame

\* consumer->destroy_display(consumer, display)
DestroyBackend(d) ==
    /\ backends.of[d].created
    /\ ~backends.of[d].destroyed
    /\ \E r \in { consumer_destroy_display(servers.listening, backends.of[d]) } :
           /\ servers' = [ listening |-> r.listening, twice |-> servers.twice \cup r.stale ]
           /\ backends' = [ backends EXCEPT !.of[d] = [ r.b EXCEPT !.destroyed = TRUE ] ]
    /\ start_call' = NoStartCall
    /\ ServerFrame

(***************************************************************************)
(* The consumer's outbound control operations and the buffers of the       *)
(* library.  The consumer writes on the control channel the provider       *)
(* reads; __send_packet is followed allocation by allocation.              *)
(***************************************************************************)
SendFaults == { "none", "list", "malloc", "space", "send" }

\* struct dh_display_info, struct dh_display_list, struct dh_add_display and
\* struct dh_remove_display as they lie in memory
DisplayInfoBytes(i) ==
    LE32(i.key) \o LE32(i.x) \o LE32(i.y) \o LE32(i.width) \o LE32(i.height) \o LE32(0)
RECURSIVE DisplayInfosBytes(_)
DisplayInfosBytes(displays) ==
    IF displays = << >> THEN << >>
    ELSE DisplayInfoBytes(Head(displays)) \o DisplayInfosBytes(Tail(displays))
DisplayListBytes(displays) == LE32(Len(displays)) \o DisplayInfosBytes(displays)
AddDisplayBytes(request) ==
    LE32(request.key) \o LE32(request.event_port) \o LE32(request.framebuffer_port)
        \o LE32(request.dirty_rectangles_port) \o LE32(request.cursor_bitmap_port)
RemoveDisplayBytes(k) == LE32(k)

HostDisplay == [ key |-> 7, x |-> 0, y |-> 0, width |-> 2, height |-> 1 ]
HostDisplayLists == { << >>, << HostDisplay >> }

\* __send_packet with what can fail inside it: bufs is the number of
\* transmit buffers it has allocated and not freed when it returns
__send_packet(open, available, type, payload, fault) ==
    LET packet == PacketBytes(type, payload)
    IN  IF ~open THEN [ rc |-> "ENOENT", out |-> << >>, bufs |-> 0 ]
        ELSE IF fault = "malloc" THEN [ rc |-> "ENOMEM", out |-> << >>, bufs |-> 0 ]
        ELSE IF fault = "space" THEN [ rc |-> "EIO", out |-> << >>, bufs |-> 1 ]
        ELSE IF available < Len(packet) THEN [ rc |-> "ENOMEM", out |-> << >>, bufs |-> 1 ]
        ELSE IF fault = "send" THEN [ rc |-> "EIO", out |-> << >>, bufs |-> 0 ]
        ELSE [ rc |-> "OK", out |-> packet, bufs |-> 0 ]

\* the three operations: what they return, and what __send_packet did; the
\* fault "list" is the allocation of the display list failing
consumer_display_list(open, available, displays, fault) ==
    LET r == __send_packet(open, available, PACKET_TYPE_CONTROL_HOST_DISPLAY_LIST,
                           DisplayListBytes(displays), fault)
    IN  IF fault = "list"
        THEN [ rc |-> "ENOMEM", send |-> [ rc |-> "ENOMEM", out |-> << >>, bufs |-> 0 ] ]
        ELSE [ rc |-> r.rc, send |-> r ]

consumer_add_display(open, available, request, fault) ==
    LET r == __send_packet(open, available, PACKET_TYPE_CONTROL_ADD_DISPLAY,
                           AddDisplayBytes(request), fault)
    IN  [ rc |-> "OK", send |-> r ]

consumer_remove_display(open, available, k, fault) ==
    LET r == __send_packet(open, available, PACKET_TYPE_CONTROL_REMOVE_DISPLAY,
                           RemoveDisplayBytes(k), fault)
    IN  [ rc |-> "OK", send |-> r ]

ControlOps == { "display_list", "add_display", "remove_display" }

ConsumerOperation(op, open, available, displays, fault) ==
    CASE op = "display_list" -> consumer_display_list(open, available, displays, fault)
      [] op = "add_display" -> consumer_add_display(open, available, FullRequest, fault)
      [] op = "remove_display" -> consumer_remove_display(open, available, FullRequest.key, fault)

\* the payload the operation puts in its packet
ControlPayload(op, displays) ==
    CASE op = "display_list" -> DisplayListBytes(displays)
      [] op = "add_display" -> AddDisplayBytes(FullRequest)
      [] op = "remove_display" -> RemoveDisplayBytes(FullRequest.key)

ControlType(op) ==
    CASE op = "display_list" -> PACKET_TYPE_CONTROL_HOST_DISPLAY_LIST
      [] op = "add_display" -> PACKET_TYPE_CONTROL_ADD_DISPLAY
      [] op = "remove_display" -> PACKET_TYPE_CONTROL_REMOVE_DISPLAY

\* consumer->display_list, consumer->add_display, consumer->remove_display
ConsumerControl(op, displays, fault) ==
    /\ UNCHANGED << dispVars, beVars, regVars >>
    /\ UNCHANGED << fleet, callback_stack, rx, dirty_event, rebound, servers, backends,
                    start_call >>
    /\ kind = "provider"
    /\ ~blocked
    /\ Len(sent) < MaxPackets
    /\ outstanding < MaxLeaked
    /\ op # "display_list" => (displays = << >> /\ fault # "list")
    /\ fault # "none" => faults < MaxFaults
    /\ \E r \in { ConsumerOperation(op, connected, RingCapacity - (Len(wire) + Len(chan)),
                                     displays, fault) } :
           /\ send_rc' = r.send.rc
           /\ wire' = wire \o r.send.out
           /\ sent' = IF r.send.rc = "OK"
                      THEN Append(sent, << ControlType(op), ControlPayload(op, displays) >>)
                      ELSE sent
           /\ control_call' = [ op |-> op, rc |-> r.rc, handed |-> r.send.rc = "OK" ]
           /\ outstanding' = outstanding + r.send.bufs
    /\ faults' = IF fault = "none" THEN faults ELSE faults + 1
    /\ UNCHANGED << kind, chan, connected, current_packet_header, fatal_error_handler,
                    disconnected, lock, blocked, trace, log, fatal_calls, crc_mismatches,
                    stream, flip, forged >>

\* the framed stream: packets sent and delivered in chunks of any size
StreamNext ==
    \/ \E type \in TypesFor(kind), payload \in Payloads : SendPacket(type, payload)
    \/ \E n \in 0..MaxChunk, recursive \in BOOLEAN : DataEvent(n, "none", recursive)
    \/ \E recursive \in BOOLEAN : DataEvent(Len(wire), "none", recursive)

\* the failure paths: transit errors, hand-built packets, failing libivc and
\* allocator calls, and the peer going away; data arrives a whole write at a time
FaultNext ==
    \/ RegisterFatalErrorHandler
    \/ /\ wire = << >>
       /\ \E type \in TypesFor(kind), payload \in Payloads : SendPacket(type, payload)
    \/ \E i \in 1..(SizeofHeader + MaxPayloadLen + SizeofFooter), b \in 0..7 : FlipBit(i, b)
    \/ \E how \in { "magic1", "magic2", "length" }, type \in TypesFor(kind), payload \in Payloads :
           SendForged(how, type, payload)
    \/ \E fault \in Faults, recursive \in BOOLEAN : DataEvent(Len(wire), fault, recursive)
    \/ \E recursive \in BOOLEAN : Disconnect(recursive)

(***************************************************************************)
(* Provider-side display: the operations of struct pv_display.             *)
(***************************************************************************)
\* provider->create_display(provider, &new_display, request, width, height, stride, NULL);
\* ring_size is what dirty_rectangles_pages gives the dirty rectangles ring
provider_create_display(request, geometry, fault, ring_size) ==
    /\ allocated = 0
    /\ \E r \in { create_display(request, fault) } :
           /\ create_rc' = r.rc
           /\ create_mallocs' = r.allocations
           /\ last_call' = [ op |-> "create", request |-> request, fault |-> fault ]
           /\ ivc_calls' = r.calls
           /\ new_display' = IF r.new_display = "unset" THEN new_display ELSE r.new_display
           /\ allocated' = IF r.rc = "OK" THEN 1 ELSE 0
           /\ display_clients' = r.clients
           /\ display_connections' = r.clients
           /\ display' = IF r.rc = "OK" THEN geometry ELSE NoGeometry
           /\ dirty_ring_size' = IF "dirty_rectangles" \in r.clients THEN ring_size ELSE 0
           /\ key' = IF r.rc = "OK" THEN request.key ELSE 0
           /\ framebuffer' = IF r.rc = "OK"
                             THEN [ buffer |-> "local_buffer",
                                    size |-> geometry.stride * geometry.height ]
                             ELSE NoFramebuffer
           /\ cursor' = [ NoCursor EXCEPT !.image = "cursor_image" \in r.clients ]
           /\ cursor_image' = << >>
           /\ local_buffers' = Cardinality(r.clients \cap { "framebuffer", "cursor_image" })
    /\ cursor_call' = NoCursorCall
    /\ display_fatal_error_handler' = FALSE
    /\ dirty_rectangles' = << >>
    /\ UNCHANGED << handler_in_progress, handlers_running, display_fatal_calls, invalidate_rc,
                    space_faults, last_invalidate, reconnect_rc, change_rc >>
    /\ UNCHANGED << control_sent, destroy_rc >>
    /\ UNCHANGED << chanVars, beVars, objVars, regVars >>

\* display->destroy(display)
DisplayDestroy ==
    /\ allocated = 1
    /\ ivc_calls' = pv_display_destroy(display_clients)
    /\ last_call' = [ op |-> "destroy", request |-> NoRequest, fault |-> "none" ]
    /\ display_clients' = { }
    /\ display_connections' = { }
    /\ allocated' = 0
    /\ new_display' = "freed"
    /\ display' = NoGeometry
    /\ dirty_ring_size' = 0
    /\ key' = 0
    /\ framebuffer' = NoFramebuffer
    /\ cursor' = NoCursor
    /\ cursor_image' = << >>
    /\ cursor_call' = NoCursorCall
    /\ local_buffers' = 0
    /\ dirty_rectangles' = << >>
    /\ display_fatal_error_handler' = FALSE
    /\ UNCHANGED << handler_in_progress, handlers_running, display_fatal_calls, invalidate_rc,
                    space_faults, last_invalidate, create_rc, create_mallocs, reconnect_rc,
                    change_rc >>
    /\ UNCHANGED << control_sent, destroy_rc >>
    /\ UNCHANGED << chanVars, beVars, objVars, regVars >>

\* what the display object is once pv_display_destroy has run
DisplayReleased ==
    /\ display_clients' = { }
    /\ display_connections' = { }
    /\ allocated' = 0
    /\ new_display' = "freed"
    /\ display' = NoGeometry
    /\ dirty_ring_size' = 0
    /\ key' = 0
    /\ framebuffer' = NoFramebuffer
    /\ cursor' = NoCursor
    /\ cursor_image' = << >>
    /\ cursor_call' = NoCursorCall
    /\ local_buffers' = 0
    /\ dirty_rectangles' = << >>
    /\ display_fatal_error_handler' = FALSE

\* what the provider's control channel can be when a display is destroyed:
\* room for nothing, or for a whole packet
ControlSpaces == { 0, RingCapacity }

\* struct dh_display_no_longer_available
DisplayNoLongerAvailableBytes(k) == LE32(k)
ParseDisplayNoLongerAvailable(b) == [ key |-> U32At(b, 1) ]

\* a destroy_display that gives up when the display handler cannot be told
provider_destroy_display_strict(open, available) ==
    /\ allocated = 1
    /\ \E r \in { send_packet(open, available, PACKET_TYPE_CONTROL_DISPLAY_NO_LONGER_AVAILABLE,
                               DisplayNoLongerAvailableBytes(key)) } :
           /\ destroy_rc' = r.rc
           /\ control_sent' = r.out
           /\ last_call' = [ op |-> "provider_destroy", request |-> NoRequest, fault |-> "none" ]
           /\ IF r.rc = "OK"
              THEN /\ ivc_calls' = << IvcCall("send", "control") >>
                                       \o pv_display_destroy(display_clients)
                   /\ DisplayReleased
              ELSE /\ ivc_calls' = << >>
                   /\ UNCHANGED << displayObject, display_connections, dirty_rectangles,
                                   display_fatal_error_handler >>
    /\ UNCHANGED << handler_in_progress, handlers_running, display_fatal_calls, invalidate_rc,
                    space_faults, last_invalidate, create_rc, create_mallocs, reconnect_rc,
                    change_rc >>
    /\ UNCHANGED << chanVars, beVars, objVars, regVars >>

\* provider->destroy_display(provider, display): the packet goes to the provider's
\* control channel, which is open or not and has room or not, then the display
\* destroys itself
provider_destroy_display(open, available) ==
    /\ allocated = 1
    /\ \E r \in { send_packet(open, available, PACKET_TYPE_CONTROL_DISPLAY_NO_LONGER_AVAILABLE,
                               DisplayNoLongerAvailableBytes(key)) } :
           /\ destroy_rc' = r.rc
           /\ control_sent' = r.out
           /\ ivc_calls' = (IF r.rc = "OK" THEN << IvcCall("send", "control") >> ELSE << >>)
                            \o pv_display_destroy(display_clients)
    /\ last_call' = [ op |-> "provider_destroy", request |-> NoRequest, fault |-> "none" ]
    /\ DisplayReleased
    /\ UNCHANGED << handler_in_progress, handlers_running, display_fatal_calls, invalidate_rc,
                    space_faults, last_invalidate, create_rc, create_mallocs, reconnect_rc,
                    change_rc >>
    /\ UNCHANGED << chanVars, beVars, objVars, regVars >>

\* a reconnect that maps its shared buffers anew, as a creation does
pv_display_reconnect_fresh(request, fault) ==
    /\ allocated = 1
    /\ \E r \in { display_reconnect(display_clients, request, fault) } :
           /\ reconnect_rc' = r.rc
           /\ last_call' = [ op |-> "reconnect", request |-> request, fault |-> fault ]
           /\ ivc_calls' = r.calls
           /\ display_connections' = display_connections \cup r.reconnected
           /\ local_buffers' = Cardinality(r.reconnected \cap { "framebuffer", "cursor_image" })
           /\ framebuffer' = IF "framebuffer" \in r.reconnected
                             THEN [ framebuffer EXCEPT !.buffer = "remapped_buffer" ]
                             ELSE framebuffer
    /\ UNCHANGED << display, new_display, allocated, display_clients, dirty_ring_size,
                    create_rc, create_mallocs, change_rc >>
    /\ UNCHANGED << key, cursor, cursor_image, cursor_call >>
    /\ UNCHANGED << displayFatal, displayDirty >>
    /\ UNCHANGED << control_sent, destroy_rc >>
    /\ UNCHANGED << chanVars, beVars, objVars, regVars >>

\* display->reconnect(display, request, rx_domain)
pv_display_reconnect(request, fault) ==
    /\ allocated = 1
    /\ \E r \in { display_reconnect(display_clients, request, fault) } :
           /\ reconnect_rc' = r.rc
           /\ last_call' = [ op |-> "reconnect", request |-> request, fault |-> fault ]
           /\ ivc_calls' = r.calls
           /\ display_connections' = display_connections \cup r.reconnected
           /\ local_buffers' = r.buffers
    /\ UNCHANGED << display, new_display, allocated, display_clients, dirty_ring_size,
                    create_rc, create_mallocs, change_rc >>
    /\ UNCHANGED << key, framebuffer, cursor, cursor_image, cursor_call >>
    /\ UNCHANGED << displayFatal, displayDirty >>
    /\ UNCHANGED << control_sent, destroy_rc >>
    /\ UNCHANGED << chanVars, beVars, objVars, regVars >>

\* display->change_resolution(display, width, height, stride): the SET_DISPLAY
\* packet goes to the event connection, whose receiver is the display backend
pv_display_change_resolution(geometry) ==
    /\ allocated = 1
    /\ Len(sent) < MaxPackets
    /\ display' = geometry
    /\ \E r \in { send_packet("event" \in display_connections,
                              RingCapacity - (Len(wire) + Len(chan)),
                              PACKET_TYPE_EVENT_SET_DISPLAY, SetDisplayBytes(geometry)) } :
           /\ change_rc' = r.rc
           /\ send_rc' = r.rc
           /\ wire' = wire \o r.out
           /\ sent' = IF r.rc = "OK"
                      THEN Append(sent, << PACKET_TYPE_EVENT_SET_DISPLAY,
                                           SetDisplayBytes(geometry) >>)
                      ELSE sent
    /\ UNCHANGED << new_display, allocated, display_clients, dirty_ring_size, display_connections,
                    ivc_calls, create_rc, create_mallocs, reconnect_rc, last_call >>
    /\ UNCHANGED << key, framebuffer, cursor, cursor_image, local_buffers, cursor_call >>
    /\ UNCHANGED << displayFatal, displayDirty >>
    /\ UNCHANGED << kind, chan, connected, current_packet_header,
                    fatal_error_handler, disconnected, lock, blocked, trace, log, fatal_calls,
                    crc_mismatches, stream, flip, forged, faults >>
    /\ UNCHANGED << control_sent, destroy_rc >>
    /\ UNCHANGED << beVars, objVars, regVars >>

\* the shared cursor buffer holds bytes before the driver has loaded an image:
\* the model fixes them when they are first looked at
CursorBufferContents(fill) ==
    /\ allocated = 1
    /\ cursor.image
    /\ cursor_image = << >>
    /\ cursor_image' = FilledCursorBuffer(fill)
    /\ UNCHANGED << display, new_display, allocated, display_clients, dirty_ring_size, key,
                    framebuffer, cursor, local_buffers, cursor_call >>
    /\ UNCHANGED << display_connections, displayResults, displayFatal, displayDirty >>
    /\ UNCHANGED << chanVars, beVars, objVars, regVars >>

\* __send_cursor_update_unsynchronized: the stored hotspot and visibility go
\* to the event connection
send_cursor_update(c) ==
    send_packet("event" \in display_connections, RingCapacity - (Len(wire) + Len(chan)),
                PACKET_TYPE_EVENT_UPDATE_CURSOR, UpdateCursorBytes(c))

\* what a cursor operation leaves alone
CursorFrame ==
    /\ UNCHANGED << display, new_display, allocated, display_clients, dirty_ring_size, key,
                    framebuffer, local_buffers >>
    /\ UNCHANGED << display_connections, displayResults, displayFatal, displayDirty >>
    /\ UNCHANGED << kind, chan, connected, current_packet_header,
                    fatal_error_handler, disconnected, lock, blocked, trace, log, fatal_calls,
                    crc_mismatches, stream, flip, forged, faults >>
    /\ UNCHANGED << beVars, objVars, regVars >>

\* the cursor update of a cursor operation that got as far as sending it
CursorUpdateSent(c, r) ==
    /\ send_rc' = r.rc
    /\ wire' = wire \o r.out
    /\ sent' = IF r.rc = "OK"
               THEN Append(sent, << PACKET_TYPE_EVENT_UPDATE_CURSOR, UpdateCursorBytes(c) >>)
               ELSE sent

\* display->load_cursor_image(display, image, width, height): the result of the
\* cursor update that copy_image sends is dropped
pv_display_load_cursor_image(src) ==
    /\ allocated = 1
    /\ Len(sent) < MaxPackets
    /\ cursor.image => cursor_image # << >>
    /\ \E r \in { load_cursor_image(cursor, cursor_image, SourceImage[src], src.width,
                                     src.height) } :
           /\ cursor_image' = r.image
           /\ cursor_call' = [ op |-> "load_cursor_image", x |-> src.width, y |-> src.height,
                               rc |-> r.rc ]
           /\ IF r.update
              THEN CursorUpdateSent(cursor, send_cursor_update(cursor))
              ELSE UNCHANGED << send_rc, wire, sent >>
    /\ UNCHANGED cursor
    /\ CursorFrame

\* a hotspot setter that refuses the edge of the cursor too
pv_display_set_cursor_hotspot_exclusive(hotspot_x, hotspot_y) ==
    /\ allocated = 1
    /\ Len(sent) < MaxPackets
    /\ IF ~cursor.image \/ "cursor_image" \notin display_clients
          \/ hotspot_x >= PV_DRIVER_CURSOR_WIDTH \/ hotspot_y >= PV_DRIVER_CURSOR_HEIGHT
       THEN /\ cursor_call' = [ op |-> "set_cursor_hotspot", x |-> hotspot_x, y |-> hotspot_y,
                                rc |-> "EINVAL" ]
            /\ UNCHANGED << cursor, send_rc, wire, sent >>
       ELSE \E c \in { [ cursor EXCEPT !.hotspot_x = hotspot_x, !.hotspot_y = hotspot_y ] } :
            \E r \in { send_cursor_update(c) } :
                /\ cursor' = c
                /\ CursorUpdateSent(c, r)
                /\ cursor_call' = [ op |-> "set_cursor_hotspot", x |-> hotspot_x,
                                    y |-> hotspot_y, rc |-> r.rc ]
    /\ UNCHANGED cursor_image
    /\ CursorFrame

\* display->set_cursor_hotspot(display, hotspot_x, hotspot_y)
pv_display_set_cursor_hotspot(hotspot_x, hotspot_y) ==
    /\ allocated = 1
    /\ Len(sent) < MaxPackets
    /\ IF ~cursor.image \/ "cursor_image" \notin display_clients
          \/ hotspot_x > PV_DRIVER_CURSOR_WIDTH \/ hotspot_y > PV_DRIVER_CURSOR_HEIGHT
       THEN /\ cursor_call' = [ op |-> "set_cursor_hotspot", x |-> hotspot_x, y |-> hotspot_y,
                                rc |-> "EINVAL" ]
            /\ UNCHANGED << cursor, send_rc, wire, sent >>
       ELSE \E c \in { [ cursor EXCEPT !.hotspot_x = hotspot_x, !.hotspot_y = hotspot_y ] } :
            \E r \in { send_cursor_update(c) } :
                /\ cursor' = c
                /\ CursorUpdateSent(c, r)
                /\ cursor_call' = [ op |-> "set_cursor_hotspot", x |-> hotspot_x,
                                    y |-> hotspot_y, rc |-> r.rc ]
    /\ UNCHANGED cursor_image
    /\ CursorFrame

\* display->set_cursor_visibility(display, visible)
pv_display_set_cursor_visibility(visible) ==
    /\ allocated = 1
    /\ Len(sent) < MaxPackets
    /\ IF ~cursor.image \/ "cursor_image" \notin display_clients
       THEN /\ cursor_call' = [ op |-> "set_cursor_visibility", x |-> 0, y |-> 0,
                                rc |-> "EINVAL" ]
            /\ UNCHANGED << cursor, send_rc, wire, sent >>
       ELSE \E c \in { [ cursor EXCEPT !.visible = visible ] } :
            \E r \in { send_cursor_update(c) } :
                /\ cursor' = c
                /\ CursorUpdateSent(c, r)
                /\ cursor_call' = [ op |-> "set_cursor_visibility", x |-> 0, y |-> 0,
                                    rc |-> r.rc ]
    /\ UNCHANGED cursor_image
    /\ CursorFrame

\* pv_display_register_fatal_error_handler
DisplayRegisterFatalErrorHandler ==
    /\ allocated = 1
    /\ ~display_fatal_error_handler
    /\ display_fatal_error_handler' = TRUE
    /\ UNCHANGED << handler_in_progress, display_connections, handlers_running,
                    display_fatal_calls >>
    /\ UNCHANGED << displayObject, displayResults, displayDirty >>
    /\ UNCHANGED << chanVars, beVars, objVars, regVars >>

\* the disconnect callback of one of the display's channels, up to the point
\* where it has entered the display's fatal-error handler
DisplayDisconnect(c) ==
    /\ c \in display_connections
    /\ display_connections' = display_connections \ { c }
    /\ IF handler_in_progress
       THEN UNCHANGED << handler_in_progress, handlers_running, display_fatal_calls >>
       ELSE IF display_fatal_error_handler
       THEN /\ handler_in_progress' = TRUE
            /\ handlers_running' = handlers_running + 1
            /\ display_fatal_calls' = display_fatal_calls + 1
       ELSE UNCHANGED << handler_in_progress, handlers_running, display_fatal_calls >>
    /\ UNCHANGED display_fatal_error_handler
    /\ UNCHANGED << displayObject, displayResults, displayDirty >>
    /\ UNCHANGED << chanVars, beVars, objVars, regVars >>

\* the handler entered by a disconnect callback returns to it
DisplayHandlerReturn ==
    /\ handler_in_progress
    /\ handlers_running > 0
    /\ handler_in_progress' = FALSE
    /\ handlers_running' = handlers_running - 1
    /\ UNCHANGED << display_fatal_error_handler, display_connections, display_fatal_calls >>
    /\ UNCHANGED << displayObject, displayResults, displayDirty >>
    /\ UNCHANGED << chanVars, beVars, objVars, regVars >>

(***************************************************************************)
(* The displays of one provider.  Each channel's disconnect callback runs  *)
(* __handle_disconnect_for_connection on the thread libivc raised it on;   *)
(* the steps below are its statements, so that callbacks of different      *)
(* threads interleave the way the unsynchronised static flag allows.       *)
(***************************************************************************)
Frame(d, at) == [ display |-> d, pc |-> at ]

Top(stack) == stack[Len(stack)]
Pop(stack) == SubSeq(stack, 1, Len(stack) - 1)

\* displays whose fatal-error handler has been entered and has not returned
HandlersExecuting ==
    { d \in Displays : \E t \in Threads : \E i \in 1..Len(callback_stack[t]) :
          callback_stack[t][i] = Frame(d, "handler") }

\* fatal-error handler invocations of thread t that have not returned
HandlerDepth(t) ==
    Cardinality({ i \in 1..Len(callback_stack[t]) : callback_stack[t][i].pc = "handler" })

FleetFrame ==
    /\ UNCHANGED << rx, dirty_event, sessVars >>
    /\ UNCHANGED << display_fatal_error_handler, display_connections, handlers_running,
                    display_fatal_calls >>
    /\ UNCHANGED << displayObject, displayResults, displayDirty >>
    /\ UNCHANGED << chanVars, beVars, regVars >>

\* create_display for display d: its four channels connect, each with its
\* disconnect callback registered
FleetCreateDisplay(d) ==
    /\ kind = "provider"
    /\ fleet[d].connections = { }
    /\ fleet[d].calls = 0
    /\ \A t \in Threads : callback_stack[t] = << >>
    /\ fleet' = [ fleet EXCEPT ![d].connections = DisplayChannels ]
    /\ UNCHANGED << callback_stack, handler_in_progress >>
    /\ FleetFrame

\* d->register_fatal_error_handler(d, handler)
FleetRegisterFatalErrorHandler(d) ==
    /\ fleet[d].connections = DisplayChannels
    /\ ~fleet[d].handler
    /\ fleet' = [ fleet EXCEPT ![d].handler = TRUE ]
    /\ UNCHANGED << callback_stack, handler_in_progress >>
    /\ FleetFrame

\* the peer closes channel c of display d: libivc runs the channel's
\* disconnect callback on thread t
FleetDisconnect(t, d, c) ==
    /\ callback_stack[t] = << >>
    /\ c \in fleet[d].connections
    /\ fleet' = [ fleet EXCEPT ![d].connections = @ \ { c } ]
    /\ callback_stack' = [ callback_stack EXCEPT ![t] = << Frame(d, "check") >> ]
    /\ UNCHANGED handler_in_progress
    /\ FleetFrame

\* teardown by the handler running on thread t: it disconnects channel c of
\* display d, and the channel's disconnect callback runs inside that call
HandlerDisconnects(t, d, c) ==
    /\ callback_stack[t] # << >>
    /\ Top(callback_stack[t]).pc = "handler"
    /\ c \in fleet[d].connections
    /\ fleet' = [ fleet EXCEPT ![d].connections = @ \ { c } ]
    /\ callback_stack' = [ callback_stack EXCEPT ![t] = Append(@, Frame(d, "check")) ]
    /\ UNCHANGED handler_in_progress
    /\ FleetFrame

\* if(handler_in_progress) return;
handle_disconnect_check(t) ==
    /\ callback_stack[t] # << >>
    /\ Top(callback_stack[t]).pc = "check"
    /\ LET d == Top(callback_stack[t]).display
           why == IF d \in HandlersExecuting THEN "own"
                  ELSE IF HandlersExecuting # { } THEN "other" ELSE "none"
       IN  IF handler_in_progress
           THEN /\ callback_stack' = [ callback_stack EXCEPT ![t] = Pop(@) ]
                /\ fleet' = IF fleet[d].handler
                            THEN [ fleet EXCEPT ![d].dropped = @ \cup { why } ]
                            ELSE fleet
           ELSE /\ callback_stack' = [ callback_stack EXCEPT ![t][Len(callback_stack[t])].pc = "set" ]
                /\ UNCHANGED fleet
    /\ UNCHANGED handler_in_progress
    /\ FleetFrame

\* handler_in_progress = true; __trigger_fatal_error_on_display(display) up to
\* the entry of the display's handler
handle_disconnect_trigger(t) ==
    /\ callback_stack[t] # << >>
    /\ Top(callback_stack[t]).pc = "set"
    /\ handler_in_progress' = TRUE
    /\ LET d == Top(callback_stack[t]).display
       IN  IF fleet[d].handler
           THEN /\ callback_stack' = [ callback_stack EXCEPT ![t][Len(callback_stack[t])].pc = "handler" ]
                /\ fleet' = [ fleet EXCEPT ![d].calls = @ + 1 ]
           ELSE /\ callback_stack' = [ callback_stack EXCEPT ![t][Len(callback_stack[t])].pc = "clear" ]
                /\ UNCHANGED fleet
    /\ FleetFrame

\* the display's handler returns to __trigger_fatal_error_on_display
FleetHandlerReturn(t) ==
    /\ callback_stack[t] # << >>
    /\ Top(callback_stack[t]).pc = "handler"
    /\ callback_stack' = [ callback_stack EXCEPT ![t][Len(callback_stack[t])].pc = "clear" ]
    /\ UNCHANGED << fleet, handler_in_progress >>
    /\ FleetFrame

\* handler_in_progress = false; and the callback returns
handle_disconnect_clear(t) ==
    /\ callback_stack[t] # << >>
    /\ Top(callback_stack[t]).pc = "clear"
    /\ handler_in_progress' = FALSE
    /\ callback_stack' = [ callback_stack EXCEPT ![t] = Pop(@) ]
    /\ UNCHANGED fleet
    /\ FleetFrame

(***************************************************************************)
(* The provider's control receive path, statement by statement, for        *)
(* callers on several threads: data-event callbacks and the exported        *)
(* try_to_read_header / try_to_receive_control_packet.  A step is one read  *)
(* of the shared header outside the lock, or one locked region.             *)
(***************************************************************************)
\* the locked region of __try_to_receive_control_packet and its outcome
receive_locked(hdr, bytes) ==
    LET length_with_footer == hdr.length + SizeofFooter
        buffer == Take(bytes, length_with_footer)
        payload == Take(buffer, hdr.length)
        footer_crc == U16At(buffer, hdr.length + 1)
        checksum == pv_helper_packet_checksum(hdr, payload)
    IN  IF ShortOf(Len(bytes), hdr.length)
        THEN [ outcome |-> "short", hdr |-> hdr, chan |-> bytes, buffer |-> << >> ]
        ELSE IF checksum # footer_crc
        THEN [ outcome |-> "crc_mismatch", hdr |-> [ hdr EXCEPT !.length = 0 ],
               chan |-> Drop(bytes, length_with_footer), buffer |-> << >> ]
        ELSE [ outcome |-> "received", hdr |-> [ hdr EXCEPT !.length = 0 ],
               chan |-> Drop(bytes, length_with_footer), buffer |-> payload ]

\* where a call goes after a step that set continue_to_read
AfterStep(call, continue_to_read) ==
    IF call = "event" /\ continue_to_read THEN "loop" ELSE "idle"

ReceiveFrame ==
    /\ UNCHANGED << fleet, callback_stack, dirty_event, sessVars >>
    /\ UNCHANGED << dispVars, beVars, regVars >>
    /\ UNCHANGED << kind, wire, connected, fatal_error_handler, disconnected, lock, blocked,
                    trace, send_rc, sent, stream, flip, forged, faults >>

\* libivc runs the data callback on thread t, or the driver calls one of the
\* two exported entry points from thread t: try_to_read_header when it sees no
\* header in progress, try_to_receive_control_packet when it sees one
ReceiveCall(t, call) ==
    /\ kind = "provider"
    /\ rx[t].pc = "idle"
    /\ chan # << >>
    /\ call = "read_header" => current_packet_header.length = 0
    /\ call = "receive" => current_packet_header.length # 0
    /\ rx' = [ rx EXCEPT ![t] = [ pc |-> CASE call = "event" -> "loop"
                                           [] call = "read_header" -> "header"
                                           [] call = "receive" -> "receive",
                                  call |-> call, buffer |-> << >> ] ]
    /\ UNCHANGED << chan, current_packet_header, log, fatal_calls, crc_mismatches >>
    /\ ReceiveFrame

\* the peer's writes become readable
RingDelivers ==
    /\ kind = "provider"
    /\ wire # << >>
    /\ chan' = chan \o wire
    /\ wire' = << >>
    /\ stream' = stream \o wire
    /\ UNCHANGED << fleet, callback_stack, rx, dirty_event, sessVars >>
    /\ UNCHANGED << dispVars, beVars, regVars >>
    /\ UNCHANGED << kind, connected, current_packet_header, fatal_error_handler, disconnected,
                    lock, blocked, trace, log, fatal_calls, crc_mismatches, send_rc, sent, flip,
                    forged, faults >>

\* if(provider->current_packet_header.length == 0), read without the lock
test_no_header(t) ==
    /\ rx[t].pc = "loop"
    /\ rx' = [ rx EXCEPT ![t].pc = IF current_packet_header.length = 0 THEN "header"
                                   ELSE "length" ]
    /\ UNCHANGED << chan, current_packet_header, log, fatal_calls, crc_mismatches >>
    /\ ReceiveFrame

\* __try_to_read_header
read_header(t) ==
    /\ rx[t].pc = "header"
    /\ \E r \in { provider_try_to_read_header(
                       Ctx(current_packet_header, chan, fatal_error_handler, FALSE)) } :
           /\ current_packet_header' = r.hdr
           /\ chan' = r.chan
           /\ rx' = [ rx EXCEPT ![t].pc = IF rx[t].call = "event"
                                          THEN (IF r.cont THEN "length" ELSE "length_last")
                                          ELSE "idle" ]
    /\ UNCHANGED << log, fatal_calls, crc_mismatches >>
    /\ ReceiveFrame

\* if(provider->current_packet_header.length > 0), read without the lock;
\* length_last: continue_to_read is false should the test fail
test_header(t) ==
    /\ rx[t].pc \in { "length", "length_last" }
    /\ rx' = [ rx EXCEPT ![t].pc = IF current_packet_header.length # 0 THEN "receive"
                                   ELSE AfterStep(rx[t].call, rx[t].pc = "length") ]
    /\ UNCHANGED << chan, current_packet_header, log, fatal_calls, crc_mismatches >>
    /\ ReceiveFrame

\* __try_to_receive_control_packet from its lock to its unlock
receive_packet(t) ==
    /\ rx[t].pc = "receive"
    /\ \E r \in { receive_locked(current_packet_header, chan) } :
           /\ current_packet_header' = r.hdr
           /\ chan' = r.chan
           /\ crc_mismatches' = crc_mismatches + (IF r.outcome = "crc_mismatch" THEN 1 ELSE 0)
           /\ fatal_calls' = fatal_calls +
                  (IF r.outcome = "crc_mismatch" /\ fatal_error_handler THEN 1 ELSE 0)
           /\ rx' = [ rx EXCEPT ![t].buffer = r.buffer,
                                ![t].pc = IF r.outcome = "received" THEN "dispatch"
                                          ELSE "idle" ]
    /\ UNCHANGED log
    /\ ReceiveFrame

\* __handle_control_packet_receipt(provider, &provider->current_packet_header,
\* buffer), after the unlock: the type is read from the provider's header
dispatch_packet(t) ==
    /\ rx[t].pc = "dispatch"
    /\ log' = Append(log, << current_packet_header.type, rx[t].buffer >>)
    /\ rx' = [ rx EXCEPT ![t].buffer = << >>, ![t].pc = AfterStep(rx[t].call, TRUE) ]
    /\ UNCHANGED << chan, current_packet_header, fatal_calls, crc_mismatches >>
    /\ ReceiveFrame

(***************************************************************************)
(* A backend's dirty rectangles channel: __handle_dirty_rectangle_event     *)
(* takes no lock, so its statements interleave with those of                *)
(* disconnect_display and with the provider's writes.                       *)
(***************************************************************************)
DirtyFrame ==
    /\ UNCHANGED << fleet, callback_stack, rx, sessVars >>
    /\ UNCHANGED << chanVars, dispVars, beVars, regVars >>

\* finish_dirty_rect_connection(display, client) with a client
finish_dirty_rect_connection ==
    /\ kind = "backend"
    /\ ~dirty_event.dirty_rectangles_connection
    /\ dirty_event.teardown = "none"
    /\ dirty_event' = [ dirty_event EXCEPT !.dirty_rectangles_connection = TRUE, !.open = TRUE ]
    /\ DirtyFrame

\* display->register_dirty_rectangle_handler(display, handler)
display_register_dirty_rectangle_handler ==
    /\ kind = "backend"
    /\ dirty_event.teardown = "none"
    /\ ~dirty_event.dirty_rectangle_handler
    /\ dirty_event' = [ dirty_event EXCEPT !.dirty_rectangle_handler = TRUE ]
    /\ DirtyFrame

\* the provider's libivc_send of one struct dh_dirty_rectangle
DirtyRecordWritten(region) ==
    /\ dirty_event.open
    /\ dirty_event.dirty_rectangle_handler
    /\ Len(dirty_event.written) < DirtyRingRecords
    /\ dirty_event' = [ dirty_event EXCEPT !.ring = @ \o DirtyRectangleBytes(region),
                                           !.written = Append(@, region) ]
    /\ DirtyFrame

\* libivc runs the data callback: libivc_getAvailableData(client, &available_data)
dirty_event_available ==
    /\ dirty_event.pc = "idle"
    /\ dirty_event.open
    /\ dirty_event.ring # << >>
    /\ ~dirty_event.null_called
    /\ dirty_event' = [ dirty_event EXCEPT !.pc = "test", !.available_data = Len(dirty_event.ring) ]
    /\ DirtyFrame

\* while(available_data >= sizeof(struct dh_dirty_rectangle) &&
\*       libivc_isOpen(client) && display->dirty_rectangles_connection)
dirty_event_test ==
    /\ dirty_event.pc = "test"
    /\ dirty_event' =
           [ dirty_event EXCEPT !.pc =
               IF /\ dirty_event.available_data >= SizeofDirtyRectangle
                  /\ dirty_event.open
                  /\ dirty_event.dirty_rectangles_connection
               THEN "recv" ELSE "idle" ]
    /\ DirtyFrame

\* memset(&rect, 0, ...); libivc_recv(client, &rect, ...): the result is not
\* looked at; a read of a closed channel, or one that libivc fails, leaves
\* rect as memset left it
dirty_event_recv(fault) ==
    /\ dirty_event.pc = "recv"
    /\ fault => dirty_event.faults < MaxFaults
    /\ LET received == dirty_event.open /\ ~fault
                       /\ Len(dirty_event.ring) >= SizeofDirtyRectangle
       IN  dirty_event' =
               [ dirty_event EXCEPT
                   !.pc = "call",
                   !.rect = IF received THEN Take(dirty_event.ring, SizeofDirtyRectangle)
                            ELSE Zeros(SizeofDirtyRectangle),
                   !.ring = IF received THEN Drop(@, SizeofDirtyRectangle) ELSE @,
                   !.faults = IF fault THEN @ + 1 ELSE @ ]
    /\ DirtyFrame

\* display->dirty_rectangle_handler(display, rect.x, rect.y, rect.width,
\* rect.height); available_data -= sizeof(struct dh_dirty_rectangle)
dirty_event_call ==
    /\ dirty_event.pc = "call"
    /\ dirty_event' =
           IF dirty_event.dirty_rectangle_handler
           THEN [ dirty_event EXCEPT
                    !.delivered = Append(@, ParseDirtyRectangle(dirty_event.rect)),
                    !.available_data = @ - SizeofDirtyRectangle,
                    !.pc = "test" ]
           ELSE [ dirty_event EXCEPT !.null_called = TRUE, !.pc = "idle" ]
    /\ DirtyFrame

\* disconnect_display, the dirty rectangles part: libivc_disable_events and
\* libivc_disconnect of the connection
dirty_disconnect_close ==
    /\ kind = "backend"
    /\ dirty_event.teardown = "none"
    /\ dirty_event.dirty_rectangles_connection
    /\ dirty_event' = [ dirty_event EXCEPT !.teardown = "closed", !.open = FALSE, !.ring = << >> ]
    /\ DirtyFrame

\* disconnect_display: dirty_rectangles_connection = NULL;
\* dirty_rectangle_handler = NULL
dirty_disconnect_clear ==
    /\ dirty_event.teardown = "closed"
    /\ dirty_event' = [ dirty_event EXCEPT !.teardown = "done",
                                           !.dirty_rectangles_connection = FALSE,
                                           !.dirty_rectangle_handler = FALSE ]
    /\ DirtyFrame

\* an invalidate_region that always sends the rectangle it was given
pv_display_invalidate_region_no_fallback(region, fault) ==
    /\ "dirty_rectangles" \in display_connections
    /\ fault => space_faults < MaxFaults
    /\ LET available_space == dirty_ring_size - Len(dirty_rectangles)
           full == [ x |-> 0, y |-> 0, width |-> display.width, height |-> display.height ]
           record == DirtyRectangleBytes(region)
           held == pv_helper_lock([ lock |-> 0, blocked |-> FALSE, recursive |-> FALSE ])
           released == pv_helper_unlock(held)
           seen == [ region |-> region, available_space |-> available_space,
                     sent |-> << >>, fatal |-> FALSE, lock |-> released.lock,
                     fatal_locked |-> FALSE ]
       IN  IF fault
           THEN /\ invalidate_rc' = "EIO"
                /\ space_faults' = space_faults + 1
                /\ display_fatal_calls' =
                       IF display_fatal_error_handler THEN display_fatal_calls + 1
                       ELSE display_fatal_calls
                /\ last_invalidate' = [ seen EXCEPT !.available_space = 0,
                                                    !.fatal = display_fatal_error_handler,
                                                    !.fatal_locked = display_fatal_error_handler
                                                                     /\ released.lock > 0 ]
                /\ UNCHANGED dirty_rectangles
           ELSE IF available_space < SizeofDirtyRectangle
           THEN /\ invalidate_rc' = "EAGAIN"
                /\ last_invalidate' = seen
                /\ UNCHANGED << space_faults, display_fatal_calls, dirty_rectangles >>
           ELSE /\ invalidate_rc' = "OK"
                /\ dirty_rectangles' = dirty_rectangles \o record
                /\ last_invalidate' = [ seen EXCEPT !.sent = record ]
                /\ UNCHANGED << space_faults, display_fatal_calls >>
    /\ UNCHANGED << display_fatal_error_handler, handler_in_progress, display_connections,
                    handlers_running >>
    /\ UNCHANGED << displayObject, displayResults >>
    /\ UNCHANGED << chanVars, beVars, objVars, regVars >>

\* display->invalidate_region(display, x, y, width, height); fault is a failing
\* libivc_getAvailableSpace
pv_display_invalidate_region(region, fault) ==
    /\ "dirty_rectangles" \in display_connections
    /\ fault => space_faults < MaxFaults
    /\ LET available_space == dirty_ring_size - Len(dirty_rectangles)
           full == [ x |-> 0, y |-> 0, width |-> display.width, height |-> display.height ]
           record == DirtyRectangleBytes(IF available_space < SizeofDirtyRectangle * 2
                                         THEN full ELSE region)
           held == pv_helper_lock([ lock |-> 0, blocked |-> FALSE, recursive |-> FALSE ])
           released == pv_helper_unlock(held)
           seen == [ region |-> region, available_space |-> available_space,
                     sent |-> << >>, fatal |-> FALSE, lock |-> released.lock,
                     fatal_locked |-> FALSE ]
       IN  IF fault
           THEN /\ invalidate_rc' = "EIO"
                /\ space_faults' = space_faults + 1
                /\ display_fatal_calls' =
                       IF display_fatal_error_handler THEN display_fatal_calls + 1
                       ELSE display_fatal_calls
                /\ last_invalidate' = [ seen EXCEPT !.available_space = 0,
                                                    !.fatal = display_fatal_error_handler,
                                                    !.fatal_locked = display_fatal_error_handler
                                                                     /\ released.lock > 0 ]
                /\ UNCHANGED dirty_rectangles
           ELSE IF available_space < SizeofDirtyRectangle
           THEN /\ invalidate_rc' = "EAGAIN"
                /\ last_invalidate' = seen
                /\ UNCHANGED << space_faults, display_fatal_calls, dirty_rectangles >>
           ELSE /\ invalidate_rc' = "OK"
                /\ dirty_rectangles' = dirty_rectangles \o record
                /\ last_invalidate' = [ seen EXCEPT !.sent = record ]
                /\ UNCHANGED << space_faults, display_fatal_calls >>
    /\ UNCHANGED << display_fatal_error_handler, handler_in_progress, display_connections,
                    handlers_running >>
    /\ UNCHANGED << displayObject, displayResults >>
    /\ UNCHANGED << chanVars, beVars, objVars, regVars >>

(***************************************************************************)
(* Handler registration, capabilities and dirty rectangle events.           *)
(***************************************************************************)
\* provider->register_*_handler(provider, handler), handler possibly NULL
ProviderRegisterHandler(h, null) ==
    /\ UNCHANGED control_connection
    /\ kind \in { "provider", "consumer" }
    /\ h \in ProviderHandlers
    /\ handlers' = IF null THEN handlers \ { h } ELSE handlers \cup { h }
    /\ capabilities' = BitOr(capabilities, CapabilityOf(h))
    /\ UNCHANGED << dispatched, dirty_calls, null_called, event_callbacks, pending_event >>
    /\ UNCHANGED << chanVars, dispVars, beVars, objVars >>

\* consumer->register_*_handler(consumer, handler)
ConsumerRegisterHandler(h, null) ==
    /\ UNCHANGED control_connection
    /\ kind = "consumer"
    /\ h \in ConsumerHandlers
    /\ handlers' = IF null THEN handlers \ { h } ELSE handlers \cup { h }
    /\ UNCHANGED << capabilities, dispatched, dirty_calls, null_called, event_callbacks,
                    pending_event >>
    /\ UNCHANGED << chanVars, dispVars, beVars, objVars >>

\* display->register_*_handler(display, handler) of a display backend
BackendRegisterHandler(h, null) ==
    /\ UNCHANGED control_connection
    /\ kind = "backend"
    /\ ~disconnected
    /\ h \in BackendEventHandlers \cup { "dirty_rectangle_handler" }
    /\ handlers' = IF null THEN handlers \ { h } ELSE handlers \cup { h }
    /\ UNCHANGED << capabilities, dispatched, dirty_calls, null_called, event_callbacks,
                    pending_event >>
    /\ UNCHANGED << chanVars, dispVars, beVars, objVars >>

\* display->disconnect_display(display) of a display backend whose event and
\* dirty rectangles connections are set
pv_display_backend_display_disconnect ==
    /\ UNCHANGED control_connection
    /\ kind = "backend"
    /\ ~disconnected
    /\ ~blocked
    /\ handlers' = handlers \ (BackendEventHandlers \cup { "dirty_rectangle_handler" })
    /\ disconnected' = TRUE
    /\ connected' = FALSE
    /\ event_callbacks' = FALSE
    /\ pending_event' = FALSE
    /\ display_connections' = { }
    /\ UNCHANGED << capabilities, dispatched, dirty_calls, null_called >>
    /\ UNCHANGED << kind, wire, chan, current_packet_header, fatal_error_handler, lock, blocked,
                    trace, log, fatal_calls, crc_mismatches, send_rc, sent, stream, flip, forged,
                    faults >>
    /\ UNCHANGED << displayFatal, displayDirty, displayObject, displayResults >>
    /\ UNCHANGED << beVars, objVars >>

\* provider->advertise_capabilities(provider, max_displays): the packet goes to
\* the control channel, whose receiver is the consumer
provider_advertise_capabilities(max_displays) ==
    /\ kind = "consumer"
    /\ Len(sent) < MaxPackets
    /\ flip = 0
    /\ forged = ""
    /\ \E r \in { send_packet(connected, RingCapacity - (Len(wire) + Len(chan)),
                              PACKET_TYPE_CONTROL_DRIVER_CAPABILITIES,
                              DriverCapabilitiesBytes(max_displays)) } :
           /\ send_rc' = r.rc
           /\ wire' = wire \o r.out
           /\ sent' = IF r.rc = "OK"
                      THEN Append(sent, << PACKET_TYPE_CONTROL_DRIVER_CAPABILITIES,
                                           DriverCapabilitiesBytes(max_displays) >>)
                      ELSE sent
    /\ UNCHANGED << kind, chan, connected, current_packet_header,
                    fatal_error_handler, disconnected, lock, blocked, trace, log, fatal_calls,
                    crc_mismatches, stream, flip, forged, faults >>
    /\ UNCHANGED << dispVars, beVars, objVars, regVars >>

\* __handle_dirty_rectangle_event of the display backend: 16-byte records are
\* read and handed to display->dirty_rectangle_handler while there are any
handle_dirty_rectangle_event ==
    /\ UNCHANGED control_connection
    /\ kind = "backend"
    /\ "dirty_rectangles" \in display_connections
    /\ ~null_called
    /\ Len(dirty_rectangles) >= SizeofDirtyRectangle
    /\ LET n == Len(dirty_rectangles) \div SizeofDirtyRectangle
       IN  IF "dirty_rectangle_handler" \in handlers
           THEN /\ dirty_calls' =
                       [ i \in 1..n |->
                           ParseDirtyRectangle(
                               Take(Drop(dirty_rectangles, SizeofDirtyRectangle * (i - 1)),
                                    SizeofDirtyRectangle)) ]
                /\ dirty_rectangles' = Drop(dirty_rectangles, SizeofDirtyRectangle * n)
                /\ UNCHANGED null_called
           ELSE /\ dirty_calls' = << >>
                /\ dirty_rectangles' = Drop(dirty_rectangles, SizeofDirtyRectangle)
                /\ null_called' = TRUE
    /\ UNCHANGED << handlers, capabilities, dispatched, event_callbacks, pending_event >>
    /\ UNCHANGED << invalidate_rc, space_faults, last_invalidate >>
    /\ UNCHANGED << displayFatal, displayObject, displayResults, display_connections >>
    /\ UNCHANGED << chanVars, beVars, objVars >>

(***************************************************************************)
(* The event channel between a display and its backend before and after    *)
(* display->finish_event_connection.                                       *)
(***************************************************************************)
\* finish_event_connection(display, client): callbacks registered and enabled
finish_event_connection ==
    /\ UNCHANGED control_connection
    /\ kind = "backend"
    /\ "event" \in display_connections
    /\ ~event_callbacks
    /\ event_callbacks' = TRUE
    /\ UNCHANGED << handlers, capabilities, dispatched, dirty_calls, null_called, pending_event >>
    /\ UNCHANGED << chanVars, dispVars, beVars, objVars >>

\* __handle_event_channel_event run by libivc for a notification
EventCallback(s) ==
    \E r \in { backend_handle_event_channel_event(s, "none", disconnected) } :
        /\ current_packet_header' = r.hdr
        /\ chan' = r.chan
        /\ fatal_error_handler' = r.handler
        /\ lock' = r.lock
        /\ blocked' = r.blocked
        /\ trace' = r.trace
        /\ log' = log \o Receipts(r.trace)
        /\ dispatched' = dispatched \o Dispatch(r.trace, handlers)
        /\ fatal_calls' = fatal_calls + Count(r.trace, "fatal")
        /\ crc_mismatches' = crc_mismatches + Count(r.trace, "crc_mismatch")

\* the bytes written by the display reach the backend's side of the ring and
\* libivc raises the data notification: with callbacks registered the callback
\* runs; without, libivc either keeps the notification (latch) or drops it
EventArrival(latch) ==
    /\ UNCHANGED control_connection
    /\ kind = "backend"
    /\ connected
    /\ ~blocked
    /\ wire # << >>
    /\ wire' = << >>
    /\ stream' = stream \o wire
    /\ IF event_callbacks
       THEN /\ EventCallback(Ctx(current_packet_header, chan \o wire, fatal_error_handler, FALSE))
            /\ UNCHANGED pending_event
       ELSE /\ chan' = chan \o wire
            /\ pending_event' = latch
            /\ UNCHANGED << current_packet_header, fatal_error_handler, lock, blocked, trace, log,
                            dispatched, fatal_calls, crc_mismatches >>
    /\ UNCHANGED << kind, connected, disconnected, send_rc, sent, flip, forged, faults >>
    /\ UNCHANGED << handlers, capabilities, dirty_calls, null_called, event_callbacks >>
    /\ UNCHANGED << dispVars, beVars, objVars >>

\* libivc delivers a notification it kept once the callbacks are registered
PendingEventCallback ==
    /\ UNCHANGED control_connection
    /\ kind = "backend"
    /\ connected
    /\ ~blocked
    /\ event_callbacks
    /\ pending_event
    /\ pending_event' = FALSE
    /\ EventCallback(Ctx(current_packet_header, chan, fatal_error_handler, FALSE))
    /\ UNCHANGED << kind, wire, connected, disconnected, send_rc, sent, stream, flip, forged,
                    faults >>
    /\ UNCHANGED << handlers, capabilities, dirty_calls, null_called, event_callbacks >>
    /\ UNCHANGED << dispVars, beVars, objVars >>

\* a display whose channels disconnect and whose transport fails
DisplayNext ==
    \/ provider_create_display(FullRequest, DefaultGeometry, "none",
                               SizeofDirtyRectangle * DirtyRingRecords)
    \/ DisplayRegisterFatalErrorHandler
    \/ \E c \in DisplayChannels : DisplayDisconnect(c)
    \/ DisplayHandlerReturn
    \/ \E region \in Regions, fault \in BOOLEAN : pv_display_invalidate_region(region, fault)

\* a display whose geometry changes while the driver invalidates regions and
\* the backend reads them
DirtyNext ==
    \/ \E geometry \in Geometries, ring_size \in DirtyRingSizes :
           provider_create_display(FullRequest, geometry, "none", ring_size)
    \/ DisplayRegisterFatalErrorHandler
    \/ \E geometry \in Geometries : pv_display_change_resolution(geometry)
    \/ \E region \in Regions : pv_display_invalidate_region(region, FALSE)
    \/ BackendRegisterHandler("dirty_rectangle_handler", FALSE)
    \/ handle_dirty_rectangle_event

\* creation, reconnection and destruction of displays for every add request
\* and every failure of the allocator and of libivc
CreateNext ==
    \/ \E request \in AddDisplayRequests, geometry \in Geometries, fault \in CreateFaults :
           provider_create_display(request, geometry, fault, SizeofDirtyRectangle * DirtyRingRecords)
    \/ DisplayDestroy
    \/ \E request \in AddDisplayRequests, fault \in ReconnectFaults :
           pv_display_reconnect(request, fault)
    \/ \E c \in DisplayChannels : DisplayDisconnect(c)

\* hotspots a driver sets: inside the cursor, on its edge and beyond it
Hotspots == { << 3, 5 >>, << 64, 64 >>, << 65, 0 >>, << 0, 65 >> }
\* an add request that offers no cursor channel
NoCursorRequest == [ FullRequest EXCEPT !.cursor_bitmap_port = 0 ]

\* cursor images loaded into a display created with and without a cursor channel
CursorNext ==
    \/ \E request \in { FullRequest, NoCursorRequest } :
           provider_create_display(request, DefaultGeometry, "none",
                                   SizeofDirtyRectangle * DirtyRingRecords)
    \/ \E fill \in CursorFills : CursorBufferContents(fill)
    \/ \E src \in CursorSources : pv_display_load_cursor_image(src)
    \/ pv_display_set_cursor_visibility(TRUE)
    \/ DisplayDisconnect("event")

\* keys the display handler gives its displays
DisplayKeys == { 7, 9 }

\* displays with every set of optional channels, destroyed through the provider
DestroyNext ==
    \/ \E k \in DisplayKeys, dr \in { 0, 2002 }, cu \in { 0, 2003 }, geometry \in Geometries :
           provider_create_display([ FullRequest EXCEPT !.key = k, !.dirty_rectangles_port = dr,
                                                        !.cursor_bitmap_port = cu ],
                                   geometry, "none", SizeofDirtyRectangle * DirtyRingRecords)
    \/ \E open \in BOOLEAN, available \in ControlSpaces : provider_destroy_display(open, available)
    \/ \E c \in DisplayChannels : DisplayDisconnect(c)

\* a provider receiving control packets, with their faults, while it
\* invalidates regions of a display it created
ProviderLocksNext ==
    \/ RegisterFatalErrorHandler
    \/ /\ wire = << >>
       /\ SendPacket(PACKET_TYPE_CONTROL_ADD_DISPLAY, PayloadOf(1))
    \/ \E fault \in Faults : DataEvent(Len(wire), fault, FALSE)
    \/ provider_create_display(FullRequest, DefaultGeometry, "none",
                               SizeofDirtyRectangle * DirtyRingRecords)
    \/ DisplayRegisterFatalErrorHandler
    \/ \E fault \in BOOLEAN :
           pv_display_invalidate_region([ x |-> 1, y |-> 2, width |-> 3, height |-> 4 ], fault)

\* the hotspot and the visibility of the cursor of such a display
HotspotNext ==
    \/ \E request \in { FullRequest, NoCursorRequest } :
           provider_create_display(request, DefaultGeometry, "none",
                                   SizeofDirtyRectangle * DirtyRingRecords)
    \/ \E h \in Hotspots : pv_display_set_cursor_hotspot(h[1], h[2])
    \/ \E visible \in BOOLEAN : pv_display_set_cursor_visibility(visible)
    \/ DisplayDisconnect("event")
    \/ pv_display_reconnect(FullRequest, "none")
    \/ DisplayDestroy

\* geometry changes travelling from a display to its backend's handler, which
\* is registered before the first change
GeometryNext ==
    \/ \E geometry \in Geometries, ring_size \in DirtyRingSizes :
           provider_create_display(FullRequest, geometry, "none", ring_size)
    \/ DisplayRegisterFatalErrorHandler
    \/ BackendRegisterHandler("set_display_handler", FALSE)
    \/ finish_event_connection
    \/ /\ "set_display_handler" \in handlers
       /\ \E geometry \in Geometries : pv_display_change_resolution(geometry)
    \/ \E latch \in BOOLEAN : EventArrival(latch)
    \/ PendingEventCallback

\* handlers registered and removed while packets and records arrive
DispatchNext ==
    \/ \E h \in { "host_display_change_handler", "add_display_handler" }, null \in BOOLEAN :
           ProviderRegisterHandler(h, null)
    \/ \E null \in BOOLEAN : ConsumerRegisterHandler("text_mode_handler", null)
    \/ \E h \in { "move_cursor_handler", "dirty_rectangle_handler" }, null \in BOOLEAN :
           BackendRegisterHandler(h, null)
    \/ pv_display_backend_display_disconnect
    \/ /\ wire = << >>
       /\ allocated = 0
       /\ \E type \in TypesFor(kind), payload \in Payloads : SendPacket(type, payload)
    \/ /\ wire = << >>
       /\ provider_advertise_capabilities(MaxDisplays)
    \/ \E recursive \in BOOLEAN : DataEvent(Len(wire), "none", recursive)
    \/ /\ kind = "backend"
       /\ sent = << >>
       /\ ~disconnected
       /\ provider_create_display(FullRequest, DefaultGeometry, "none",
                                  SizeofDirtyRectangle * DirtyRingRecords)
    \/ \E region \in Regions : pv_display_invalidate_region(region, FALSE)
    \/ handle_dirty_rectangle_event

(***************************************************************************)
(* Display backend: __trigger_fatal_error_on_display_backend, one thread   *)
(* per disconnecting channel.                                              *)
(***************************************************************************)
\* display_register_fatal_error_handler
BackendRegisterFatalErrorHandler ==
    /\ UNCHANGED objVars
    /\ registrations < MaxRegistrations
    /\ registrations' = registrations + 1
    /\ backend_fatal_error_handler' = TRUE
    /\ UNCHANGED << fatal_lock, pc, backend_fatal_calls >>
    /\ UNCHANGED << chanVars, dispVars, regVars >>

\* libivc runs the channel's disconnect callback, which calls the trigger
BackendDisconnect(c) ==
    /\ UNCHANGED objVars
    /\ pc[c] = "connected"
    /\ pc' = [ pc EXCEPT ![c] = "lock" ]
    /\ UNCHANGED << backend_fatal_error_handler, fatal_lock, backend_fatal_calls, registrations >>
    /\ UNCHANGED << chanVars, dispVars, regVars >>

\* pv_helper_lock(&display->fatal_lock)
TriggerLock(c) ==
    /\ UNCHANGED objVars
    /\ pc[c] = "lock"
    /\ fatal_lock = "none"
    /\ fatal_lock' = c
    /\ pc' = [ pc EXCEPT ![c] = "check" ]
    /\ UNCHANGED << backend_fatal_error_handler, backend_fatal_calls, registrations >>
    /\ UNCHANGED << chanVars, dispVars, regVars >>

\* a trigger that calls the handler and leaves the pointer set
TriggerCheckKeepsHandler(c) ==
    /\ UNCHANGED objVars
    /\ pc[c] = "check"
    /\ IF backend_fatal_error_handler
       THEN /\ backend_fatal_calls' = backend_fatal_calls + 1
            /\ pc' = [ pc EXCEPT ![c] = "handler" ]
            /\ UNCHANGED backend_fatal_error_handler
       ELSE /\ pc' = [ pc EXCEPT ![c] = "unlock" ]
            /\ UNCHANGED << backend_fatal_error_handler, backend_fatal_calls >>
    /\ UNCHANGED << fatal_lock, registrations >>
    /\ UNCHANGED << chanVars, dispVars, regVars >>

\* if(display->fatal_error_handler) { tmp_fn = it; it = NULL; tmp_fn(display)
TriggerCheck(c) ==
    /\ UNCHANGED objVars
    /\ pc[c] = "check"
    /\ IF backend_fatal_error_handler
       THEN /\ backend_fatal_error_handler' = FALSE
            /\ backend_fatal_calls' = backend_fatal_calls + 1
            /\ pc' = [ pc EXCEPT ![c] = "handler" ]
       ELSE /\ pc' = [ pc EXCEPT ![c] = "unlock" ]
            /\ UNCHANGED << backend_fatal_error_handler, backend_fatal_calls >>
    /\ UNCHANGED << fatal_lock, registrations >>
    /\ UNCHANGED << chanVars, dispVars, regVars >>

\* tmp_fn(display) returns
TriggerHandlerReturn(c) ==
    /\ UNCHANGED objVars
    /\ pc[c] = "handler"
    /\ pc' = [ pc EXCEPT ![c] = "unlock" ]
    /\ UNCHANGED << backend_fatal_error_handler, fatal_lock, backend_fatal_calls, registrations >>
    /\ UNCHANGED << chanVars, dispVars, regVars >>

\* pv_helper_unlock(&display->fatal_lock)
TriggerUnlock(c) ==
    /\ UNCHANGED objVars
    /\ pc[c] = "unlock"
    /\ fatal_lock' = "none"
    /\ pc' = [ pc EXCEPT ![c] = "done" ]
    /\ UNCHANGED << backend_fatal_error_handler, backend_fatal_calls, registrations >>
    /\ UNCHANGED << chanVars, dispVars, regVars >>

BackendNext ==
    \/ BackendRegisterFatalErrorHandler
    \/ \E c \in DisplayChannels : BackendDisconnect(c)
    \/ \E c \in DisplayChannels : TriggerLock(c)
    \/ \E c \in DisplayChannels : TriggerCheck(c)
    \/ \E c \in DisplayChannels : TriggerHandlerReturn(c)
    \/ \E c \in DisplayChannels : TriggerUnlock(c)

vars == << chanVars, dispVars, beVars, regVars, objVars >>
Init == ChanInit /\ DisplayInit /\ BackendInit /\ RegInit /\ ObjectsInit
Next == StreamNext
Spec == Init /\ [][Next]_vars
SpecFaults == Init /\ [][FaultNext]_vars

\* the receiver of a display's event channel is a display backend
InitDisplay == Init /\ kind = "backend"
InitBackend == Init /\ kind = "backend"
SpecDisplay == InitDisplay /\ [][DisplayNext]_vars
SpecDirty == InitDisplay /\ [][DirtyNext]_vars
SpecCreate == InitDisplay /\ [][CreateNext]_vars
SpecCursor == InitDisplay /\ [][CursorNext]_vars
SpecHotspot == InitDisplay /\ [][HotspotNext]_vars
SpecDestroy == InitDisplay /\ [][DestroyNext]_vars
InitProvider == Init /\ kind = "provider"

\* channels the peer closes by itself; the handlers' teardown closes any
PeerClosed == { "event", "framebuffer" }

\* two displays of one provider losing their channels
FleetNext ==
    \/ \E d \in Displays : FleetCreateDisplay(d)
    \/ \E d \in Displays : FleetRegisterFatalErrorHandler(d)
    \/ \E t \in Threads, d \in Displays, c \in PeerClosed : FleetDisconnect(t, d, c)
    \/ \E t \in Threads, d \in Displays, c \in DisplayChannels : HandlerDisconnects(t, d, c)
    \/ \E t \in Threads : handle_disconnect_check(t)
    \/ \E t \in Threads : handle_disconnect_trigger(t)
    \/ \E t \in Threads : FleetHandlerReturn(t)
    \/ \E t \in Threads : handle_disconnect_clear(t)

SpecFleet == InitProvider /\ [][FleetNext]_vars

ReceiveCalls == { "event", "read_header", "receive" }

\* the control channel of a provider whose callers are on two threads
ReceiveNext ==
    \/ \E type \in TypesFor(kind), payload \in Payloads \ { << >> } : SendPacket(type, payload)
    \/ RingDelivers
    \/ \E t \in Threads, call \in ReceiveCalls : ReceiveCall(t, call)
    \/ \E t \in Threads : test_no_header(t)
    \/ \E t \in Threads : read_header(t)
    \/ \E t \in Threads : test_header(t)
    \/ \E t \in Threads : receive_packet(t)
    \/ \E t \in Threads : dispatch_packet(t)

SpecReceive == InitProvider /\ [][ReceiveNext]_vars

\* a backend reading dirty rectangles while the provider writes them, libivc
\* fails a read, and the driver disconnects the display
DirtyEventNext ==
    \/ finish_dirty_rect_connection
    \/ display_register_dirty_rectangle_handler
    \/ \E region \in Regions : DirtyRecordWritten(region)
    \/ dirty_event_available
    \/ dirty_event_test
    \/ \E fault \in BOOLEAN : dirty_event_recv(fault)
    \/ dirty_event_call
    \/ dirty_disconnect_close
    \/ dirty_disconnect_clear

SpecDirtyEvent == InitDisplay /\ [][DirtyEventNext]_vars

\* a consumer or a backend that loses its connection, possibly in the middle
\* of a packet, and binds a new client; every packet has a body
RebindNext ==
    \/ RegisterFatalErrorHandler
    \/ \E type \in TypesFor(kind), payload \in Payloads \ { << >> } : SendPacket(type, payload)
    \/ \E n \in { SizeofHeader, Len(wire) }, recursive \in BOOLEAN :
           DataEvent(n, "none", recursive)
    \/ \E recursive \in BOOLEAN : Disconnect(recursive)
    \/ \E recursive \in BOOLEAN : Rebind(recursive)

InitReceiver == Init /\ kind \in { "consumer", "backend" }
SpecRebind == InitReceiver /\ [][RebindNext]_vars

\* two backends of one consumer, their servers started, reused and shut down
ServersNext ==
    \/ \E d \in Displays, shared \in SUBSET DisplayChannels : CreateBackend(d, shared)
    \/ \E d \in Displays, fail_at \in DisplayChannels \cup { "none" } : StartServers(d, fail_at)
    \/ \E d \in Displays : DestroyBackend(d)

SpecServers == InitBackend /\ [][ServersNext]_vars

\* the same backends when every libivc_start_listening_server succeeds
SharedServersNext ==
    \/ \E d \in Displays, shared \in SUBSET DisplayChannels : CreateBackend(d, shared)
    \/ \E d \in Displays : StartServers(d, "none")
    \/ \E d \in Displays : DestroyBackend(d)

SpecSharedServers == InitBackend /\ [][SharedServersNext]_vars

\* the consumer's control operations on a channel the provider drains, with
\* failing allocations and libivc calls on both sides, and a peer that leaves
ConsumerSendNext ==
    \/ RegisterFatalErrorHandler
    \/ \E op \in ControlOps, displays \in HostDisplayLists, fault \in SendFaults :
           ConsumerControl(op, displays, fault)
    \/ \E fault \in Faults, recursive \in BOOLEAN : DataEvent(Len(wire), fault, recursive)
    \/ \E recursive \in BOOLEAN : Disconnect(recursive)

SpecConsumerSend == InitProvider /\ [][ConsumerSendNext]_vars

SpecProviderLocks == InitProvider /\ [][ProviderLocksNext]_vars

\* a consumer from the start of its control server to the first packets
ControlConnectionNext ==
    \/ consumer_register_control_connection_handler
    \/ RegisterFatalErrorHandler
    \/ \E type \in TypesFor(kind), payload \in Payloads : SendPacket(type, payload)
    \/ \E finishes \in BOOLEAN, fault \in Faults, recursive \in BOOLEAN :
           ControlConnection(finishes, fault, recursive)
    \/ \E fault \in Faults, recursive \in BOOLEAN : FinishControlConnection(fault, recursive)
    \/ \E recursive \in BOOLEAN : DataEvent(Len(wire), "none", recursive)
    \/ \E recursive \in BOOLEAN : Disconnect(recursive)

InitControlConnection ==
    /\ ChanInit /\ DisplayInit /\ BackendInit /\ RegistrationsInit /\ ObjectsInit
    /\ kind = "consumer"
    /\ control_connection = NoControlConnection

SpecControlConnection == InitControlConnection /\ [][ControlConnectionNext]_vars
SpecDispatch == Init /\ [][DispatchNext]_vars

\* the consumer finishes the connection it was offered, and libivc makes
\* written bytes visible and delivers the notifications it holds
\* the guards of EventArrival and of PendingEventCallback, each of which
\* changes the state whenever its guard holds
EventArrivalEnabled == kind = "backend" /\ connected /\ ~blocked /\ wire # << >>
PendingEventCallbackEnabled ==
    kind = "backend" /\ connected /\ ~blocked /\ event_callbacks /\ pending_event

\* the backend finishes its connection, the ring carries what was written and
\* libivc runs a callback it owes: weak fairness of the three steps, the
\* enabling conditions of the last two written out as their guards
GeometryFairness ==
    /\ WF_vars(finish_event_connection)
    /\ \/ []<>(~EventArrivalEnabled)
       \/ []<><< \E latch \in BOOLEAN : EventArrival(latch) >>_vars
    /\ \/ []<>(~PendingEventCallbackEnabled)
       \/ []<><< PendingEventCallback >>_vars
SpecGeometry == InitDisplay /\ [][GeometryNext]_vars /\ GeometryFairness
SpecBackend == InitBackend /\ [][BackendNext]_vars

(***************************************************************************)
(* Properties of the packet codec and of the receivers' failure paths.     *)
(***************************************************************************)
\* the struct dh_header / struct dh_footer field that holds byte i (from 0)
\* of a packet with a payload of the given length
FieldOf(i, length) ==
    CASE i < 2 -> "magic1"
      [] i >= 2 /\ i < 4 -> "magic2"
      [] i >= 4 /\ i < 8 -> "type"
      [] i >= 8 /\ i < 12 -> "length"
      [] i >= 12 /\ i < SizeofHeader -> "dh_reserved_word"
      [] i >= SizeofHeader /\ i < SizeofHeader + length -> "payload"
      [] i >= SizeofHeader + length /\ i < SizeofHeader + length + 2 -> "crc"
      [] OTHER -> "footer_reserved"

FlippedField == FieldOf((flip - 1) \div 8, Len(sent[1][2]))

\* the dispatches of one data event that finds all of the bytes available
OneShot(k, bytes) ==
    Receipts(DataCallback(k, Ctx(NoHeader, bytes, FALSE, FALSE), "none", FALSE).trace)

\* C1: once the bytes of a packet written by __send_packet have all been
\* delivered, the receiver has dispatched exactly that (type, payload), has
\* no header in progress and has consumed the packet's bytes, whatever the
\* payload length, 0 included.
C1_RoundTrip ==
    (Len(sent) = 1 /\ wire = << >>) =>
        (log = sent /\ current_packet_header.length = 0 /\ chan = << >>)

\* C2: however the bytes of a sequence of encoded packets are split into
\* data events, the dispatches made so far are those of a single data event
\* that delivers the same bytes at once.
C2_StreamingEquivalence == log = OneShot(kind, stream)

C2_Witness ==
    /\ Len(sent) = 2
    /\ Len(log) = 1
    /\ current_packet_header.length # 0
    /\ chan # << >>

\* C3: a packet whose magics are wrong is never dispatched, and a header
\* that announces more than the maximum payload is rejected instead of being
\* kept as the packet in progress.
C3_ValidityChecked ==
    /\ forged \in { "magic1", "magic2" } => log = << >>
    /\ forged = "length" => current_packet_header.length <= PV_DRIVER_MAX_PAYLOAD_SIZE

\* C4: a provider data event that finds a CRC mismatch dispatches nothing for
\* that packet, leaves the in-progress header length 0, and calls the
\* registered fatal-error handler exactly once, with the provider lock free.
C4_ProviderCrcMismatch ==
    (kind = "provider" /\ Count(trace, "crc_mismatch") > 0) =>
        LET i == CHOOSE i \in 1..Len(trace) : trace[i].ev = "crc_mismatch"
        IN  /\ Count(trace, "crc_mismatch") = 1
            /\ \A j \in i..Len(trace) : trace[j].ev # "receipt"
            /\ log = << >>
            /\ current_packet_header.length = 0
            /\ lock = 0
            /\ fatal_error_handler =>
                   /\ Count(trace, "fatal") = 1
                   /\ i < Len(trace)
                   /\ trace[i + 1].ev = "fatal"
                   /\ ~trace[i + 1].locked
                   /\ trace[i + 1].hdr.length = 0

C4_Witness ==
    /\ kind = "provider"
    /\ fatal_error_handler
    /\ Count(trace, "crc_mismatch") = 1
    /\ Count(trace, "fatal") = 1
    /\ fatal_calls = 1

\* C5 as stated: after any single bit flip, header length field and footer
\* reserved fields included, the receiver detects a CRC mismatch and does not
\* dispatch the packet.
C5_AnyFlipRejected ==
    (flip # 0 /\ wire = << >>) => (crc_mismatches >= 1 /\ log = << >>)

\* C5 amended: a flip in magic1, magic2, type, the header's reserved word,
\* the payload or the footer's crc of a packet with a non-empty payload is
\* detected as a CRC mismatch and the packet is not dispatched; a flip in
\* the footer's reserved fields is not detected and the packet is dispatched
\* as sent; a packet with an empty payload is neither checked nor dispatched.
C5_CoveredFlipRejected ==
    (flip # 0 /\ wire = << >> /\ FlippedField # "length") =>
        IF Len(sent[1][2]) = 0 THEN crc_mismatches = 0 /\ log = << >>
        ELSE IF FlippedField = "footer_reserved" THEN crc_mismatches = 0 /\ log = sent
        ELSE crc_mismatches = 1 /\ log = << >>

C5_Witness ==
    /\ flip # 0
    /\ wire = << >>
    /\ FlippedField = "type"
    /\ crc_mismatches = 1
    /\ log = << >>

\* C8: the provider's fatal-error handler is called at most once, whatever
\* failed queries, CRC mismatches and disconnect the control session meets.
C8_ProviderFatalAtMostOnce == kind = "provider" => fatal_calls <= 1

\* C9: a consumer data event that finds a CRC mismatch returns, with the
\* in-progress header length 0 and the registered fatal-error handler called
\* once.
C9_ConsumerCrcMismatch ==
    (kind = "consumer" /\ Count(trace, "crc_mismatch") > 0) =>
        /\ ~blocked
        /\ current_packet_header.length = 0
        /\ fatal_error_handler => Count(trace, "fatal") = 1

\* C10: a display backend with a registered fatal-error handler whose event
\* channel meets a CRC mismatch or a failed available-data query has called
\* the handler exactly once.
C10_BackendEventErrorIsFatal ==
    ( /\ kind = "backend"
      /\ fatal_error_handler \/ fatal_calls > 0
      /\ Count(trace, "crc_mismatch") > 0 \/ Count(trace, "avail_failed") > 0 ) =>
        fatal_calls = 1

\* C6: a provider-side display with a registered fatal-error handler calls it
\* at most once, whatever channels disconnect and whatever queries fail.
C6_DisplayFatalAtMostOnce == display_fatal_error_handler => display_fatal_calls <= 1

\* C7: after a single registration the backend's handler is called at most
\* once, and while it runs the handler pointer is already cleared and
\* fatal_lock is held by the calling thread.
C7_BackendFatalAtMostOnce ==
    registrations = 1 =>
        /\ backend_fatal_calls <= 1
        /\ \A c \in DisplayChannels :
               pc[c] = "handler" => (~backend_fatal_error_handler /\ fatal_lock = c)

C7_Witness ==
    /\ registrations = 1
    /\ backend_fatal_calls = 1
    /\ \A c \in DisplayChannels : pc[c] = "done"
(***************************************************************************)
(* Properties of the provider-side display.                                *)
(***************************************************************************)
\* a step in which pv_display_invalidate_region returned without a transport failure
InvalidateReturned ==
    /\ last_invalidate' # last_invalidate \/ invalidate_rc' # invalidate_rc
    /\ invalidate_rc' # "EIO"

AvailableSpace == dirty_ring_size - Len(dirty_rectangles)

\* C11: with less than 16 bytes available, invalidate_region writes nothing,
\* returns try-again and does not call the fatal-error handler; with at least 16
\* and less than 32 it writes exactly the 16-byte record (0, 0, W, H) of the
\* display's stored width and height, whatever the caller's rectangle
C11_DirtyRectOverrun ==
    [][ InvalidateReturned =>
          /\ AvailableSpace < 16 =>
                /\ dirty_rectangles' = dirty_rectangles
                /\ invalidate_rc' = "EAGAIN"
                /\ display_fatal_calls' = display_fatal_calls
                /\ handlers_running' = handlers_running
          /\ (16 <= AvailableSpace /\ AvailableSpace < 32) =>
                /\ dirty_rectangles' =
                       dirty_rectangles \o LE32(0) \o LE32(0) \o LE32(display.width)
                                        \o LE32(display.height)
                /\ Len(dirty_rectangles') = Len(dirty_rectangles) + 16 ]_vars

\* 20 bytes were free, the geometry had been changed, and the record written
\* is the full screen of the new geometry
C11_Witness ==
    /\ invalidate_rc = "OK"
    /\ change_rc # "none"
    /\ last_invalidate.available_space = 20
    /\ last_invalidate.region.x # 0
    /\ last_invalidate.sent = LE32(0) \o LE32(0) \o LE32(display.width) \o LE32(display.height)
    /\ display.width = 4

\* C12: with at least 32 bytes available, invalidate_region writes exactly one
\* raw 16-byte record (x, y, w, h) equal to the caller's arguments, without
\* header or footer, and leaves the display's stored fields unchanged
C12_DirtyRectRaw ==
    [][ (InvalidateReturned /\ AvailableSpace >= 32) =>
          LET r == last_invalidate'.region
          IN  /\ r \in Regions
              /\ invalidate_rc' = "OK"
              /\ dirty_rectangles' =
                     dirty_rectangles \o LE32(r.x) \o LE32(r.y) \o LE32(r.width) \o LE32(r.height)
              /\ Len(dirty_rectangles') = Len(dirty_rectangles) + 16
              /\ UNCHANGED << display, display_clients, display_connections,
                              display_fatal_error_handler, dirty_ring_size, new_display,
                              allocated >> ]_vars

C12_Witness ==
    /\ invalidate_rc = "OK"
    /\ last_invalidate.available_space >= 32
    /\ last_invalidate.region \in Regions
    /\ dirty_rectangles = DirtyRectangleBytes(last_invalidate.region)
    /\ last_invalidate.sent = dirty_rectangles

\* the n-th SET_DISPLAY accepted by the event channel carries geometry g
GeometrySent(n, g) ==
    /\ Len(sent) = n
    /\ sent[n] = << PACKET_TYPE_EVENT_SET_DISPLAY, SetDisplayBytes(g) >>
    /\ change_rc = "OK"
    /\ "event" \in display_connections
    /\ "set_display_handler" \in handlers

\* the n-th packet received was given to the set-display handler with geometry g
GeometryHandled(n, g) ==
    /\ Len(dispatched) >= n
    /\ dispatched[n].called
    /\ dispatched[n].handler = "set_display_handler"
    /\ ParseSetDisplay(dispatched[n].payload) = g

\* C13: every change_resolution(w, h, s) that returns success on a display whose
\* event channel is connected to a backend with a set-display handler is
\* eventually followed by a call of that handler with (w, h, s), also when the
\* packet arrives before finish_event_connection
C13_GeometryDelivered ==
    \A n \in 1..MaxPackets : \A g \in Geometries : GeometrySent(n, g) ~> GeometryHandled(n, g)

\* the channels the last call tried to connect, in the order of the attempts
ConnectAttempts ==
    LET connects == SelectSeq(ivc_calls, LAMBDA c : c.op = "connect")
    IN  [ i \in 1..Len(connects) |-> connects[i].channel ]

\* the place of a channel in the documented initialization sequence
SequencePlace(channel) ==
    CASE channel = "event" -> 1
      [] channel = "framebuffer" -> 2
      [] channel = "dirty_rectangles" -> 3
      [] channel = "cursor_image" -> 4

\* the last call was a create_display that got past validation and allocation
CreateAccepted ==
    /\ last_call.op = "create"
    /\ __validate_add_display_request(last_call.request)
    /\ last_call.fault # "malloc"

\* C14: a create_display for an accepted ADD_DISPLAY attempts its connections in
\* the order event, framebuffer, dirty rectangles, cursor image: the first
\* attempt is the event connection and no attempt precedes one of an earlier place
C14_ConnectOrder ==
    CreateAccepted =>
        /\ ConnectAttempts # << >>
        /\ ConnectAttempts[1] = "event"
        /\ \A i, j \in 1..Len(ConnectAttempts) :
               i < j => SequencePlace(ConnectAttempts[i]) < SequencePlace(ConnectAttempts[j])

\* C18: create_display with a request whose framebuffer_port or event_port is 0
\* fails with invalid-argument before any allocation: nothing is allocated, no
\* transport call is made and no display object comes out of the call
C18_InvalidRequestRejected ==
    (/\ last_call.op = "create"
     /\ last_call.request.framebuffer_port = 0 \/ last_call.request.event_port = 0) =>
        /\ create_rc = "EINVAL"
        /\ create_mallocs = 0
        /\ ivc_calls = << >>
        /\ allocated = 0
        /\ display_clients = { }
        /\ display_connections = { }
        /\ new_display # "display"

C18_Witness ==
    /\ last_call.op = "create"
    /\ last_call.request.framebuffer_port = 0
    /\ last_call.request.event_port # 0
    /\ last_call.fault = "none"
    /\ create_rc = "EINVAL"
    /\ ivc_calls = << >>
    /\ new_display = "freed"

\* the channel whose libivc_connect the fault makes fail
FailedConnect(fault) ==
    CASE fault = "connect_framebuffer" -> "framebuffer"
      [] fault = "connect_event" -> "event"
      [] fault = "connect_dirty_rectangles" -> "dirty_rectangles"
      [] fault = "connect_cursor_image" -> "cursor_image"
      [] OTHER -> "none"

\* the i-th transport call of the last operation opened a connection
Opened(i) ==
    /\ ivc_calls[i].op = "connect"
    /\ ivc_calls[i].channel # FailedConnect(last_call.fault)

C20_ReconnectRejects ==
    /\ \A clients \in SUBSET DisplayChannels, request \in AddDisplayRequests,
          fault \in ReconnectFaults :
           ("framebuffer" \notin clients \/ "event" \notin clients) =>
               LET r == display_reconnect(clients, request, fault)
               IN  r.rc = "EINVAL" /\ r.calls = << >>
    /\ last_call.op = "reconnect" =>
           /\ (\/ last_call.request.framebuffer_port = 0
               \/ last_call.request.event_port = 0
               \/ "framebuffer" \notin display_clients
               \/ "event" \notin display_clients) =>
                  (reconnect_rc = "EINVAL" /\ ivc_calls = << >>)
           /\ (/\ last_call.request.framebuffer_port # 0
               /\ last_call.request.event_port # 0
               /\ { "framebuffer", "event" } \subseteq display_clients
               /\ last_call.fault \in { "framebuffer", "event" }) =>
                  (/\ reconnect_rc = "ENXIO"
                   /\ ivc_calls[Len(ivc_calls)] = IvcCall("reconnect", last_call.fault))

C20_Witness ==
    /\ last_call.op = "reconnect"
    /\ last_call.request.framebuffer_port # 0
    /\ last_call.request.event_port = 0
    /\ last_call.fault = "none"
    /\ "event" \notin display_connections
    /\ reconnect_rc = "EINVAL"
    /\ ivc_calls = << >>

\* the port the request offers for a channel
PortOf(request, channel) ==
    CASE channel = "event" -> request.event_port
      [] channel = "framebuffer" -> request.framebuffer_port
      [] channel = "dirty_rectangles" -> request.dirty_rectangles_port
      [] channel = "cursor_image" -> request.cursor_bitmap_port

\* the last call was a reconnect of a display holding its two required channels,
\* with both required ports given
ReconnectAccepted ==
    /\ last_call.op = "reconnect"
    /\ { "framebuffer", "event" } \subseteq display_clients
    /\ last_call.request.framebuffer_port # 0
    /\ last_call.request.event_port # 0

\* the transport was asked to reconnect the channel during the last call
ReconnectCalled(channel) ==
    \E i \in 1..Len(ivc_calls) : ivc_calls[i] = IvcCall("reconnect", channel)

\* C21: reconnect returns 0 whenever the framebuffer and the event reconnects
\* succeed: an optional channel whose port is 0 in the request is not reconnected,
\* and a transport failure on an optional channel does not fail the call
C21_ReconnectTolerates ==
    (ReconnectAccepted /\ last_call.fault \notin { "framebuffer", "event" }) =>
        /\ reconnect_rc = "OK"
        /\ ReconnectCalled("framebuffer") /\ ReconnectCalled("event")
        /\ \A c \in { "dirty_rectangles", "cursor_image" } :
               ReconnectCalled(c) <=> (PortOf(last_call.request, c) # 0 /\ c \in display_clients)

C21_Witness ==
    /\ ReconnectAccepted
    /\ last_call.fault = "dirty_rectangles"
    /\ last_call.request.dirty_rectangles_port # 0
    /\ last_call.request.cursor_bitmap_port = 0
    /\ { "dirty_rectangles", "cursor_image" } \subseteq display_clients
    /\ reconnect_rc = "OK"
    /\ ivc_calls = << IvcCall("reconnect", "framebuffer"), IvcCall("reconnect", "event"),
                      IvcCall("reconnect", "dirty_rectangles") >>

\* a step of display->reconnect, whatever its request and whatever libivc does
ReconnectStep ==
    /\ last_call'.op = "reconnect"
    /\ pv_display_reconnect(last_call'.request, last_call'.fault)

\* C22: a reconnect works on the existing channels in place: the framebuffer
\* pointer and size, the cursor image pointer, the four channel handles, the key
\* and the stored geometry are what they were, no local buffer is obtained and
\* no channel is connected anew
C22_ReconnectInPlace ==
    [][ ReconnectStep =>
            /\ framebuffer' = framebuffer
            /\ cursor'.image = cursor.image
            /\ display_clients' = display_clients
            /\ key' = key
            /\ display' = display
            /\ local_buffers' = 0
            /\ \A i \in 1..Len(ivc_calls') : ivc_calls'[i].op = "reconnect" ]_vars

C22_Witness ==
    /\ ReconnectAccepted
    /\ last_call.fault = "none"
    /\ reconnect_rc = "OK"
    /\ Len(ivc_calls) = 4
    /\ display_clients = DisplayChannels
    /\ framebuffer.buffer = "local_buffer" /\ framebuffer.size > 0
    /\ cursor.image
    /\ key # 0
    /\ local_buffers = 0

(***************************************************************************)
(* Properties of a receive that gets no buffer.                            *)
(***************************************************************************)
\* a data event in which pv_helper_malloc returned NULL for the receive buffer
AllocFailure ==
    /\ Count(trace', "alloc_failed") > 0
    /\ \E recursive \in BOOLEAN : DataEvent(Len(wire), "malloc", recursive)

\* that event kept the header it had or had just read, took no byte after it,
\* dispatched nothing and called no fatal-error handler
HeaderPreserved ==
    LET bytes == chan \o wire
    IN  /\ current_packet_header'.length # 0
        /\ IF current_packet_header.length # 0
           THEN current_packet_header' = current_packet_header /\ chan' = bytes
           ELSE \E k \in SizeofHeader..Len(bytes) :
                    /\ current_packet_header' = ParseHeader(SubSeq(bytes, k - SizeofHeader + 1, k))
                    /\ chan' = Drop(bytes, k)
        /\ ~ShortOf(Len(chan'), current_packet_header'.length)
        /\ log' = log
        /\ fatal_calls' = fatal_calls /\ Count(trace', "fatal") = 0
        /\ ~blocked' /\ lock' = 0

\* the receiver was left with a header and all the bytes of its body by a
\* failed allocation, and the bytes are those of packets as they were sent
AllocStalled ==
    /\ Count(trace, "alloc_failed") > 0
    /\ current_packet_header.length # 0
    /\ ~ShortOf(Len(chan), current_packet_header.length)
    /\ flip = 0 /\ forged = ""

\* the next data event, in which the allocator works again
RetryEvent == \E recursive \in BOOLEAN : DataEvent(Len(wire), "none", recursive)

\* every packet sent had a payload
NoEmptySent == \A i \in 1..Len(sent) : Len(sent[i][2]) > 0

\* the retry dispatched the packet of the kept header, once, before anything else
PacketResumed ==
    /\ Len(log') > Len(log)
    /\ SubSeq(log', 1, Len(log)) = log
    /\ log'[Len(log) + 1] = << current_packet_header.type,
                               Take(chan, current_packet_header.length) >>
    /\ NoEmptySent => (log' = sent /\ chan' = << >> /\ current_packet_header'.length = 0)

UserCallbacks == { i \in 1..Len(trace) : trace[i].ev \in { "receipt", "fatal" } }

\* C28: on the consumer side no user handler runs with the object's big lock
\* held: not a control-packet handler or the fatal-error handler of a consumer,
\* not an event-packet handler of a display backend
C28_ConsumerHandlersUnlocked ==
    kind \in { "consumer", "backend" } => \A i \in UserCallbacks : ~trace[i].locked

LoadedSource == [ width |-> cursor_call'.x, height |-> cursor_call'.y ]
LoadStep ==
    /\ cursor_call'.op = "load_cursor_image"
    /\ pv_display_load_cursor_image(LoadedSource)

\* row y of the 64x64 cursor buffer
CursorRow(image, y) ==
    SubSeq(image, y * pixels_to_bytes(PV_DRIVER_CURSOR_WIDTH) + 1,
           (y + 1) * pixels_to_bytes(PV_DRIVER_CURSOR_WIDTH))

\* the buffer is the source in its top-left width x height pixels and zero in
\* the columns to the right of them and in the rows below them
CursorClipped(image, src) ==
    /\ Len(image) = CURSOR_IMAGE_SIZE
    /\ \A y \in 0..(PV_DRIVER_CURSOR_HEIGHT - 1) :
           CursorRow(image, y) =
               IF y < src.height
               THEN SubSeq(SourceImage[src], y * pixels_to_bytes(src.width) + 1,
                           (y + 1) * pixels_to_bytes(src.width))
                    \o Zeros(pixels_to_bytes(PV_DRIVER_CURSOR_WIDTH - src.width))
               ELSE Zeros(pixels_to_bytes(PV_DRIVER_CURSOR_WIDTH))

\* the step put exactly one packet on the event channel: an UPDATE_CURSOR
OneCursorUpdateSent ==
    /\ Len(sent') = Len(sent) + 1
    /\ SubSeq(sent', 1, Len(sent)) = sent
    /\ sent'[Len(sent')][1] = PACKET_TYPE_EVENT_UPDATE_CURSOR
    /\ wire' = wire \o PacketBytes(PACKET_TYPE_EVENT_UPDATE_CURSOR, sent'[Len(sent')][2])

\* the clip of load_cursor_image alone: an image of at most 64x64 loaded into
\* a display with a cursor buffer leaves the buffer clipped, and a larger one
\* is refused and leaves it as it was
LoadClips ==
    [][ LoadStep =>
            IF LoadedSource.width > PV_DRIVER_CURSOR_WIDTH
               \/ LoadedSource.height > PV_DRIVER_CURSOR_HEIGHT
            THEN cursor_call'.rc = "EINVAL" /\ cursor_image' = cursor_image
            ELSE cursor.image => CursorClipped(cursor_image', LoadedSource) ]_vars

\* C23: load_cursor_image of an image of at most 64x64 on a display with a
\* cursor buffer leaves the buffer equal to the source in the top-left region and
\* zero elsewhere, whatever it held, and then sends one UPDATE_CURSOR packet; a
\* wider or higher image is refused with EINVAL, the buffer stays and nothing
\* is sent
C23_LoadCursorImage ==
    [][ LoadStep =>
            IF LoadedSource.width > PV_DRIVER_CURSOR_WIDTH
               \/ LoadedSource.height > PV_DRIVER_CURSOR_HEIGHT
            THEN /\ cursor_call'.rc = "EINVAL"
                 /\ cursor_image' = cursor_image
                 /\ sent' = sent /\ wire' = wire
            ELSE cursor.image =>
                     /\ CursorClipped(cursor_image', LoadedSource)
                     /\ OneCursorUpdateSent ]_vars

\* a step of display->set_cursor_hotspot
HotspotStep ==
    /\ cursor_call'.op = "set_cursor_hotspot"
    /\ pv_display_set_cursor_hotspot(cursor_call'.x, cursor_call'.y)

\* the hotspot the call asked for lies beyond the cursor
HotspotTooFar ==
    cursor_call'.x > PV_DRIVER_CURSOR_WIDTH \/ cursor_call'.y > PV_DRIVER_CURSOR_HEIGHT

\* the step stored nothing in the cursor and put nothing on the event channel
HotspotRefused ==
    /\ cursor_call'.rc = "EINVAL"
    /\ cursor' = cursor
    /\ sent' = sent /\ wire' = wire

\* the step stored the hotspot that was asked for
HotspotStored ==
    /\ cursor'.hotspot_x = cursor_call'.x /\ cursor'.hotspot_y = cursor_call'.y
    /\ cursor'.visible = cursor.visible /\ cursor'.image = cursor.image

\* the step sent one UPDATE_CURSOR carrying the new hotspot and the stored visibility
HotspotUpdateSent ==
    /\ OneCursorUpdateSent
    /\ ParseUpdateCursor(sent'[Len(sent')][2]) =
           [ xhot |-> cursor_call'.x, yhot |-> cursor_call'.y,
             show |-> IF cursor.visible THEN 1 ELSE 0 ]

\* the display has a cursor buffer and a cursor image connection
HasCursor == cursor.image /\ "cursor_image" \in display_clients

\* C24 as stated: set_cursor_hotspot with xh > 64 or yh > 64 returns EINVAL, keeps
\* the stored hotspot and sends nothing; otherwise it stores the hotspot and
\* sends an UPDATE_CURSOR with the new hotspot and the stored visibility
C24_HotspotStated ==
    [][ HotspotStep =>
            IF HotspotTooFar THEN HotspotRefused
            ELSE HotspotStored /\ HotspotUpdateSent ]_vars

\* C24: on a display with a cursor buffer and a cursor connection,
\* set_cursor_hotspot with xh > 64 or yh > 64 returns EINVAL, keeps the stored
\* hotspot and sends nothing; otherwise it stores the hotspot and returns the
\* result of sending an UPDATE_CURSOR with the new hotspot and the stored
\* visibility, which is on the event channel exactly when that result is 0; on
\* a display without a cursor every call is refused with EINVAL
C24_HotspotChecked ==
    [][ HotspotStep =>
            IF HotspotTooFar \/ ~HasCursor THEN HotspotRefused
            ELSE /\ HotspotStored
                 /\ cursor_call'.rc = send_rc'
                 /\ IF cursor_call'.rc = "OK" THEN HotspotUpdateSent
                    ELSE sent' = sent /\ wire' = wire ]_vars

C24_Witness ==
    /\ cursor_call = [ op |-> "set_cursor_hotspot", x |-> 64, y |-> 64, rc |-> "OK" ]
    /\ cursor = [ image |-> TRUE, hotspot_x |-> 64, hotspot_y |-> 64, visible |-> TRUE ]
    /\ sent # << >>
    /\ ParseUpdateCursor(sent[Len(sent)][2]) = [ xhot |-> 64, yhot |-> 64, show |-> 1 ]

\* a step of display->set_cursor_visibility
VisibilityStep ==
    /\ cursor_call'.op = "set_cursor_visibility"
    /\ pv_display_set_cursor_visibility(cursor'.visible)

\* a step in which __send_packet was called for the event channel
SendAttempt ==
    \/ HotspotStep /\ HasCursor /\ ~HotspotTooFar
    \/ VisibilityStep /\ HasCursor

\* the bytes of the packet that step tried to send
AttemptedPacket == PacketBytes(PACKET_TYPE_EVENT_UPDATE_CURSOR, UpdateCursorBytes(cursor'))

ProviderDestroyStep ==
    /\ last_call'.op = "provider_destroy"
    /\ \E open \in BOOLEAN, available \in ControlSpaces : provider_destroy_display(open, available)

\* libivc_disconnect was called for the channel during the last call
DisconnectCalled(channel) ==
    \E i \in 1..Len(ivc_calls) : ivc_calls[i] = IvcCall("disconnect", channel)

\* C26: provider destroy_display tears the display down whether or not its
\* DISPLAY_NO_LONGER_AVAILABLE packet could be sent: every channel the display
\* had is disconnected and the display is released; a packet that is sent carries
\* the display's key and goes out before the first disconnect
C26_DestroyAlways ==
    [][ ProviderDestroyStep =>
            /\ \A c \in display_clients :
                   \E i \in 1..Len(ivc_calls') : ivc_calls'[i] = IvcCall("disconnect", c)
            /\ allocated' = 0 /\ new_display' = "freed"
            /\ display_clients' = { } /\ display_connections' = { }
            /\ IF destroy_rc' = "OK"
               THEN /\ control_sent' =
                           PacketBytes(PACKET_TYPE_CONTROL_DISPLAY_NO_LONGER_AVAILABLE,
                                       DisplayNoLongerAvailableBytes(key))
                    /\ ParseDisplayNoLongerAvailable(
                           SubSeq(control_sent', SizeofHeader + 1, SizeofHeader + 4)).key = key
                    /\ ivc_calls'[1] = IvcCall("send", "control")
                    /\ \A i \in 2..Len(ivc_calls') : ivc_calls'[i].op = "disconnect"
               ELSE /\ control_sent' = << >>
                    /\ \A i \in 1..Len(ivc_calls') : ivc_calls'[i].op = "disconnect" ]_vars

C26_Witness ==
    /\ last_call.op = "provider_destroy"
    /\ destroy_rc = "ENOMEM"
    /\ control_sent = << >>
    /\ ivc_calls = << IvcCall("disconnect", "event"), IvcCall("disconnect", "framebuffer"),
                      IvcCall("disconnect", "dirty_rectangles"),
                      IvcCall("disconnect", "cursor_image") >>
    /\ allocated = 0 /\ new_display = "freed"
    /\ display_connections = { }

(***************************************************************************)
(* Properties of capabilities, handler registration and dispatch.          *)
(***************************************************************************)
\* a step in which advertise_capabilities put its packet on the control channel
CapabilitiesSent ==
    /\ Len(sent') = Len(sent) + 1
    /\ sent'[Len(sent')][1] = PACKET_TYPE_CONTROL_DRIVER_CAPABILITIES

\* C15: the DRIVER_CAPABILITIES packet sent by advertise_capabilities(max_displays)
\* carries max_displays, version 1 and, as flags, the capability bitmap the
\* handler registrations before the call have accumulated
C15_CapabilitiesAdvertised ==
    [][ CapabilitiesSent =>
          LET c == ParseDriverCapabilities(sent'[Len(sent')][2])
          IN  /\ c.max_displays = MaxDisplays
              /\ c.version = 1
              /\ c.flags = capabilities ]_vars

\* C16: an event whose handler is not registered, or was set to NULL, is dropped:
\* no handler is called for it and no NULL function pointer is invoked, neither
\* for a packet of the three receivers nor for a dirty rectangle record
C16_NullHandlerDrops ==
    /\ ~null_called
    /\ \A i \in 1..Len(dispatched) :
           dispatched[i].called => dispatched[i].handler \in
               ProviderHandlers \cup ConsumerHandlers \cup BackendEventHandlers

\* the bytes of the packets sent so far
SentBytes ==
    LET F[i \in 0..Len(sent)] ==
            IF i = 0 THEN << >> ELSE F[i - 1] \o PacketBytes(sent[i][1], sent[i][2])
    IN  F[Len(sent)]

\* every byte sent has been handed to the receiver by a data event it ran
AllDelivered == sent # << >> /\ wire = << >> /\ stream = SentBytes /\ ~disconnected

\* the packet types a receiver has no case for
UnhandledTypes == { PACKET_TYPE_CONTROL_END }

\* C17: a valid packet of a type the receiver does not handle is ignored: no user
\* handler and no fatal-error handler is invoked for it, its bytes are consumed,
\* no header stays in progress, and every valid packet sent with it on the
\* channel is decoded and dispatched
C17_UnknownTypeIgnored ==
    (AllDelivered /\ \E i \in 1..Len(sent) : sent[i][1] \in UnhandledTypes) =>
        /\ Len(dispatched) = Len(sent)
        /\ \A i \in 1..Len(sent) :
               /\ dispatched[i].type = sent[i][1]
               /\ dispatched[i].payload = sent[i][2]
               /\ sent[i][1] \in UnhandledTypes =>
                      (dispatched[i].handler = "none" /\ ~dispatched[i].called)
        /\ fatal_calls = 0
        /\ chan = << >>
        /\ current_packet_header.length = 0

\* The accept callback in which the user's handler passed the client to
\* finish_control_connection.
FinishedInHandler == control_connection.finished = "handler"

\* nothing the receive loop could still take is left in the ring
PendingProcessed ==
    IF current_packet_header.length = 0
    THEN Len(chan) < SizeofHeader
    ELSE ShortOf(Len(chan), current_packet_header.length)

\* C30: when the control server accepts a connection the user's
\* control_connection handler is invoked, and a finish_control_connection
\* made from within that handler registers the channel callbacks, processes
\* the data already pending and returns: it never blocks on the consumer
\* lock that the caller of the handler holds.
C30_FinishFromHandler ==
    /\ (control_connection.accepted /\ control_connection.new_control_connection)
           => control_connection.handler_called
    /\ FinishedInHandler =>
           /\ control_connection.callbacks
           /\ control_connection.returned
           /\ ~blocked
           /\ faults = 0 => PendingProcessed

\* what does hold: the handler is invoked and the callbacks are registered,
\* and the call returns with the pending data processed on a build whose
\* mutex its owner can take twice
FinishFromHandlerRecursive ==
    /\ (control_connection.accepted /\ control_connection.new_control_connection)
           => control_connection.handler_called
    /\ FinishedInHandler =>
           /\ control_connection.callbacks
           /\ control_connection.control_channel
           /\ control_connection.returned = ~blocked
           /\ (control_connection.returned /\ faults = 0) => PendingProcessed
           /\ blocked => (lock = 1 /\ log = << >>)

\* C31: fatal-error delivery is per display: a disconnect of a channel of
\* display B invokes B's registered handler even while the handler of another
\* display A is executing, on another thread or nested inside A's handler; no
\* disconnect notification of a display is dropped because of another
\* display's handler.
C31_FatalPerDisplay == \A d \in Displays : "other" \notin fleet[d].dropped

\* C32: while a display's fatal-error handler runs because of a disconnect,
\* the disconnect callbacks raised by the teardown the handler performs do not
\* re-enter a fatal-error handler: no thread is ever more than one handler deep.
C32_NoNestedHandler == \A t \in Threads : HandlerDepth(t) <= 1

\* C33: on the provider control channel, whatever the interleaving of data
\* callbacks and of the exported try_to_read_header and
\* try_to_receive_control_packet on different threads, each complete valid
\* packet is dispatched exactly once, in the order sent, with its own type and
\* its own payload, and no body is checked against another packet's header.
C33_ReceiveInterleaved ==
    /\ Len(log) <= Len(sent)
    /\ log = SubSeq(sent, 1, Len(log))
    /\ crc_mismatches = 0

\* the packets sent whose bytes the receiver has all been given
CompleteSent ==
    LET Size[i \in 0..Len(sent)] ==
            IF i = 0 THEN 0
            ELSE Size[i - 1] + Len(PacketBytes(sent[i][1], sent[i][2]))
        whole == { i \in 0..Len(sent) : Size[i] <= Len(stream) }
    IN  SubSeq(sent, 1, CHOOSE i \in whole : \A j \in whole : j <= i)

\* C34: when a data-event callback returns without a fatal error, allocation
\* failure or read failure, every complete packet that was in the channel has
\* been dispatched, and less than one complete packet remains buffered: no
\* header in progress and less than a header available, or a header in
\* progress and less than its length plus the footer available.
C34_DrainToQuiescence ==
    (crc_mismatches = 0 /\ ~blocked) => (log = CompleteSent /\ PendingProcessed)

\* C35: every invocation of the consumer's dirty rectangle handler carries a
\* 16-byte record the provider wrote; records are delivered in the order
\* written, each at most once, never from a partial record and never made up
\* (such as an all-zero rectangle after a failed read), under any interleaving
\* of dirty rectangle data events and disconnect_display.
C35_DirtyRecordsGenuine ==
    /\ Len(dirty_event.delivered) <= Len(dirty_event.written)
    /\ dirty_event.delivered = SubSeq(dirty_event.written, 1, Len(dirty_event.delivered))
    /\ ~dirty_event.null_called


(***************************************************************************)
(* C36: reassembly state does not survive a connection.  Once the receiver *)
(* has bound a new client after losing its connection, possibly between a  *)
(* header and its body, no header is in progress until bytes of the new    *)
(* connection arrive, and the packets of the new connection are received   *)
(* as they were sent, in order, with no CRC mismatch.                      *)
(***************************************************************************)
C36_FreshConnection ==
    rebound =>
        /\ stream = << >> => current_packet_header.length = 0
        /\ Len(log) <= Len(sent)
        /\ log = SubSeq(sent, 1, Len(log))
        /\ crc_mismatches = 0

\* the servers libivc has listening
ListeningServers == servers.listening

\* the backends that exist: created and not destroyed
Live(d) == backends.of[d].created /\ ~backends.of[d].destroyed

(***************************************************************************)
(* C37: start_servers is all-or-nothing.  When the last start_servers      *)
(* returned an error, the listening servers are those that listened before *)
(* the call (what it started is shut down, what it reused is not), it      *)
(* issued no shutdown on a NULL pointer or on a server that was not        *)
(* listening, and the four *_server_listening flags are false.             *)
(***************************************************************************)
C37_StartAllOrNothing ==
    start_call.rc = "EINVAL" =>
        /\ ListeningServers = start_call.before
        /\ ~start_call.null_shutdown
        /\ ~start_call.stale_shutdown
        /\ \A c \in DisplayChannels : ~backends.of[start_call.display].listening[c]

(***************************************************************************)
(* C38: shared listeners outlive the backends that do not own them alone.  *)
(* Every server a live backend has marked listening is listening, and      *)
(* destroy_display never shuts down a server that is not listening (so     *)
(* each listening server is shut down once, with its last user).           *)
(***************************************************************************)
C38_SharedListeners ==
    /\ \A d \in Displays, c \in DisplayChannels :
           (Live(d) /\ backends.of[d].listening[c]) =>
               backends.of[d].server[c] \in ListeningServers
    /\ servers.twice = { }

(***************************************************************************)
(* C39: every outbound consumer control operation surfaces a send failure. *)
(* display_list, add_display and remove_display return 0 exactly when      *)
(* their packet was handed to the transport, and an error when the channel *)
(* is closed, lacks space, or the send fails.                              *)
(***************************************************************************)
C39_SendFailureSurfaced ==
    control_call.op # "none" => (control_call.rc = "OK" <=> control_call.handed)

(***************************************************************************)
(* C40: no buffer leaks on any path.  Whenever no library call is in       *)
(* progress, every buffer the library allocated has been freed.            *)
(***************************************************************************)
C40_NoBufferLeak == ~blocked => outstanding = 0

====
